---- MODULE Spec2Model ----
(***************************************************************************)
(* Verification model of the GitArchiver pipeline (rust_github_archiver).  *)
(*                                                                         *)
(* Several specifications share the variables below:                      *)
(*   Spec      - the coordinator state machine (scraper/state.rs) called   *)
(*               concurrently by several holders of Arc<ScraperManager>,   *)
(*               with the mutex of `status` modelled explicitly;           *)
(*   PipeSpec  - MainScraper (run_main_loop), ArchiveScraper               *)
(*               (run_continuous_scraping, process_file), the two          *)
(*               ResourceMonitor instances and an operator;                *)
(*   StoreSpec - the store (core/enhanced_database.rs) and                 *)
(*               MainScraper::process_single_file.                         *)
(*   ParseSpec - FileProcessor::parse_events (scraper/file_processor.rs); *)
(*   DlSpec    - Downloader::download_file (scraper/downloader.rs);        *)
(*   RlSpec    - RateLimiter and DanglingCommitFetcher                     *)
(*               (github/dangling_commits.rs);                             *)
(*   RtSpec    - GitHubEventMonitor (realtime/mod.rs);                     *)
(*   ScanSpec  - SecretScanner (secrets/scanner.rs);                       *)
(*   ValSpec   - SecretValidator::validate_secret (secrets/validator.rs);  *)
(*   TriSpec   - determine_revocation_priority (ai/triage.rs);             *)
(*   SigSpec   - send_webhook and its signature (realtime/mod.rs);         *)
(*   ApiSpec   - the handlers of the control surface (api/handlers.rs,     *)
(*               api/state.rs) and the MainScraper they hold;              *)
(*   DdSpec    - PerformanceEngine::deduplicate_secrets                    *)
(*               (performance/mod.rs) under concurrent calls.              *)
(***************************************************************************)
EXTENDS Integers, Sequences, FiniteSets, TLC

VARIABLES
    status,      \* ScraperManager.status : ScraperStatus (behind the mutex)
    lock,        \* holder of the status mutex, or "none"
    pend,        \* the operation running inside the critical section
    ret,         \* the last value returned by a ScraperManager operation
    committed,   \* the status left by the last finished operation
    snap,        \* the snapshot get_status handed out, until the next call
    now,         \* Utc::now(), in seconds (saturates at MaxTime)
    pc,          \* position of the task running MainScraper::start
    timer,       \* seconds left of the time::sleep that task is in
    mainFlag,    \* MainScraper.shutdown_requested
    archFlag,    \* ArchiveScraper.shutdown_requested
    emergency,   \* ResourceMonitor.emergency_mode, per monitor instance
    sample,      \* the last sample a monitor took (GovSpec)
    workers,     \* the process_file tasks of the current batch
    opc,         \* position of the operator inside MainScraper::stop
    opsLeft,     \* operator calls still allowed (bound)
    dbOpen,      \* DatabaseManager.pool.is_some()
    sinceEm,     \* seconds since a monitor last reported emergency (capped)
    tbl,         \* the rows of the events table, in insertion order
    ledger,      \* the processed_files table: filename -> record
    onDisk,      \* the archive files present in the download directory
    ingests,     \* per file, how often it was ingested, per path (capped)
    parseIn,     \* the decompressed data last given to FileProcessor
    parsed,      \* what parse_events returned for it
    dlPc,        \* position inside Downloader::download_file
    dlAttempt,   \* the loop variable attempt of the retry loop
    dlFile,      \* size of the file at local_path, or NoSize
    dlWaits,     \* the delays slept before the retries of this call
    dlLog,       \* the outcomes of the attempts of this call
    dlLast,      \* the response of the last attempt
    dlResult,    \* the DownloadResult returned by the last call
    limiter,     \* DanglingCommitFetcher.rate_limiter : RateLimiter
    rlRet,       \* the last call on the fetcher or its limiter, its result
    rlCalls,     \* requests that were answered with a commit (bound)
    rtLog,       \* the events GitHub has published so far: ids 1..rtLog
    rtLast,      \* GitHubEventMonitor.last_event_id, or NoId
    rtQueue,     \* GitHubEventMonitor.processing_queue (event ids)
    rtSeen,      \* per event id, how often poll_events returned it as new
    rtPolled,    \* the body of the last response of the events API
    rtPush,      \* what process_single_event did with the last event
    rtLoop,      \* the loop of start_monitoring: "running" or "failed"
    rtOutcome,   \* how the last poll or the last event handled ended
    rtErrs,      \* polling errors in a row so far (the code keeps no count)
    rtSleep,     \* seconds start_monitoring slept after the last poll
    scDetectors, \* SecretScanner.detectors
    scPatterns,  \* SecretScanner.patterns : detector name -> compiled regex
    scIn,        \* the text or patch last given to the scanner
    scOut,       \* the matches the last scan returned
    vlIn,        \* the match last given to SecretValidator, the service's answer
    vlOut,       \* the ValidationResult returned for it
    vlSent,      \* the services a request was sent to during that call
    trIn,        \* the scores and risk factors last given to the triage agent
    trOut,       \* the RevocationPriority it determined for them
    trPrevIn,    \* the scores and risk factors of the call before
    trPrevOut,   \* the RevocationPriority of the call before
    sgIn,        \* the body and the endpoint secret of the last webhook sent
    sgOut,       \* the X-Hub-Signature-256 header of that request, or NoHeader
    apiMgr,      \* the status of AppState.scraper_manager
    msMgr,       \* the status of the MainScraper's own scraper_manager
    msInst,      \* which MainScraper AppState.main_scraper holds (0: None)
    msLock,      \* the request holding the mutex of AppState.main_scraper
    msShutdown,  \* shutdown_requested of that MainScraper
    apiReq,      \* the requests of the control surface and where they stand
    ddStore,     \* PerformanceEngine.deduplication_store
    ddReq        \* the calls of deduplicate_secrets and where they stand

mgrVars  == <<lock, pend, ret, committed, snap>>
pipeVars == <<pc, timer, mainFlag, archFlag, emergency, workers, opc,
              opsLeft, dbOpen, sinceEm>>
storeVars == <<tbl, ledger, onDisk, ingests>>
parseVars == <<parseIn, parsed>>
\* the variables of the components that run on their own
dlVars == <<dlPc, dlAttempt, dlFile, dlWaits, dlLog, dlLast, dlResult>>
rlVars == <<limiter, rlRet, rlCalls>>
rtVars == <<rtLog, rtLast, rtQueue, rtSeen, rtPolled, rtPush, rtLoop,
            rtOutcome, rtErrs, rtSleep>>
scVars == <<scDetectors, scPatterns, scIn, scOut>>
vlVars == <<vlIn, vlOut, vlSent>>
trVars == <<trIn, trOut, trPrevIn, trPrevOut>>
sgVars == <<sgIn, sgOut>>
apiVars == <<apiMgr, msMgr, msInst, msLock, msShutdown, apiReq>>
ddVars == <<ddStore, ddReq>>
\* the variables of the control surface and of the performance engine
svcVars == <<apiVars, ddVars>>
\* the variables of the scanner, the validator, the triage agent and the
\* webhook sender
toolVars == <<scVars, vlVars, trVars, sgVars, svcVars>>
compVars == <<parseVars, dlVars, rlVars, rtVars, toolVars>>
\* the variables the coordinator and the pipeline never change
extVars == <<sample, storeVars, compVars>>
\* the variables the components never change
coreVars == <<status, now, mgrVars, pipeVars, sample, storeVars, toolVars>>
\* the variables the scanner never changes
sysVars == <<status, now, mgrVars, pipeVars, sample, storeVars, parseVars,
             dlVars, rlVars, rtVars>>
vars == <<status, now, mgrVars, pipeVars, extVars>>

----------------------------------------------------------------------------
(* Bounds *)

MaxTime == 2
MaxErrors == 2
MaxOps == 2
MaxIngests == 2    \* ingestions of one file that are counted
MaxSegs == 3       \* runs of equal lines in one decompressed file
MaxCalls == 1      \* requests answered with a commit
MaxFactor == 8     \* largest delay_factor a doubling may reach
MaxEvents == 4     \* events GitHub publishes
PageSize == 2      \* events in one response of the events API
MaxPollErrors == 3 \* polling errors in a row that are counted
MaxWords == 2      \* candidate strings in a scanned text, lines in a patch
MaxCustom == 1     \* detectors added with add_detector
MaxBody == 2       \* bytes in the body of a webhook request
MaxSecret == 2     \* bytes in the secret of a webhook endpoint
QueueBound == 1    \* items a bounded processing queue would hold
MaxRequests == 3   \* requests the control surface receives
MaxBatch == 2      \* secrets in one batch request
MaxDedupCalls == 2 \* concurrent calls of deduplicate_secrets

----------------------------------------------------------------------------
(* scraper/state.rs *)

NoTime == 0 - 1
NoFile == "None"

ScraperStates == {"Stopped", "Running", "Paused", "Error"}

\* impl Default for ScraperStatus; last_updated = Utc::now() at construction
DefaultStatus(t) ==
    [ state            |-> "Stopped",
      last_updated     |-> t,
      events_processed |-> 0,
      files_processed  |-> 0,
      current_file     |-> NoFile,
      processing_rate  |-> 0,
      error_count      |-> 0,
      start_time       |-> NoTime ]

Ok(s)  == [ok |-> TRUE,  status |-> s]
Err(s) == [ok |-> FALSE, status |-> s]

start(s, t) ==
    IF s.state = "Running"
    THEN Err(s)
    ELSE Ok([s EXCEPT !.state = "Running", !.start_time = t, !.last_updated = t])

stop(s, t) ==
    Ok([s EXCEPT !.state = "Stopped", !.start_time = NoTime,
                 !.current_file = NoFile, !.last_updated = t])

pause_any(s, t) ==
    Ok([s EXCEPT !.state = "Paused", !.last_updated = t])

pause(s, t) ==
    IF s.state = "Running"
    THEN Ok([s EXCEPT !.state = "Paused", !.last_updated = t])
    ELSE Err(s)

resume(s, t) ==
    IF s.state = "Paused"
    THEN Ok([s EXCEPT !.state = "Running", !.last_updated = t])
    ELSE Err(s)

restart(s, t) ==
    Ok([s EXCEPT !.state = "Running", !.start_time = t,
                 !.events_processed = 0, !.files_processed = 0,
                 !.current_file = NoFile, !.processing_rate = 0,
                 !.error_count = 0, !.last_updated = t])

get_status(s) == s

\* processing_rate is events / elapsed seconds (f64 in the code, the integer
\* quotient here); it is left alone when start_time is None or no second has
\* elapsed.
update_progress(s, t, events, files, current_file) ==
    LET s1 == [s EXCEPT !.events_processed = events,
                        !.files_processed = files,
                        !.current_file = current_file,
                        !.last_updated = t]
    IN  IF s.start_time # NoTime /\ t - s.start_time > 0
        THEN Ok([s1 EXCEPT !.processing_rate = events \div (t - s.start_time)])
        ELSE Ok(s1)

add_error(s, t) ==
    Ok([s EXCEPT !.error_count = @ + 1, !.last_updated = t])

is_running(s) == s.state = "Running"

----------------------------------------------------------------------------
(* core/resource_monitor.rs *)
(* Usage is given in hundredths of a percent of the axis limit; the       *)
(* percent field of a status is rounded to one decimal (tenths).          *)

Monitors == {"main", "archive"}

\* ResourceLimits as built by MainScraper::new and ArchiveScraper::new
MemoryWarning    == 80      \* memory_warning_threshold * 100
DiskWarning      == 80      \* disk_warning_threshold * 100
CpuWarning       == 70      \* cpu_warning_threshold * 100
EmergencyPercent == 90      \* emergency_cleanup_threshold * 100
CpuLimit         == 80      \* cpu_limit_percent

\* (percent * 10.0).round() / 10.0, as tenths of a percent
RoundTenths(c) == (c + 5) \div 10

\* the emergency_conditions of one sample
emergency_conditions(mem, disk, cpu) ==
    (IF RoundTenths(mem) > EmergencyPercent * 10 THEN {"memory"} ELSE {})
    \cup (IF RoundTenths(disk) > EmergencyPercent * 10 THEN {"disk"} ELSE {})
    \cup (IF RoundTenths(cpu) * 100 > CpuLimit * EmergencyPercent * 10
          THEN {"cpu"} ELSE {})

\* ResourceMonitor::get_resource_status: the new emergency_mode
get_resource_status(mem, disk, cpu) ==
    emergency_conditions(mem, disk, cpu) # {}

\* usage below w.L, between w.L and e.L, and above e.L on each axis
MemSamples  == {5000, 8500, 9004, 9500}
DiskSamples == {5000, 8500, 9500}
CpuSamples  == {4000, 6000, 7500}

NoSample == [monitor |-> "none", mem |-> 0, disk |-> 0, cpu |-> 0]

----------------------------------------------------------------------------
(* scraper/archive_scraper.rs, scraper/main_scraper.rs: state *)

\* the archive objects a listing can name
Files == {"f1", "f2"}

\* The decompressed lines of each file, run-length coded: k > 0 is a run of
\* k lines that parse as JSON, BlankLine an empty line, BadLine a line that
\* fails serde_json::from_str.
BlankLine == 0
BadLine == 0 - 1
FileLines ==
    [f \in Files |->
        IF f = "f1" THEN <<1000, 1000>> ELSE <<BadLine, BlankLine, 1000>>]

\* seconds slept by the loops
NotRunningWait == 5       \* main_scraper.rs:216, archive_scraper.rs:276
EmergencyWait  == 60      \* main_scraper.rs:236, archive_scraper.rs:298
CycleWait      == 10      \* main_scraper.rs:268
BatchWait      == 2       \* archive_scraper.rs:358
ListWait       == 300     \* archive_scraper.rs:375
ProgressEvery  == 1000    \* archive_scraper.rs:201
MaxConcurrent  == 3       \* archive_scraper.rs:315

IdleWorker == [pc |-> "idle", idx |-> 1, ev |-> 0, res |-> "none"]

\* MainScraper::new followed by MainScraper::initialize
PipeIdle ==
    /\ pc = "new"
    /\ timer = 0
    /\ mainFlag = FALSE
    /\ archFlag = FALSE
    /\ emergency = [m \in Monitors |-> FALSE]
    /\ workers = [f \in Files |-> IdleWorker]
    /\ opc = "idle"
    /\ opsLeft = MaxOps
    /\ dbOpen = TRUE
    /\ sinceEm = EmergencyWait

----------------------------------------------------------------------------
(* core/enhanced_database.rs, scraper/file_processor.rs: the store *)

NoEtag == "None"
NoRecord == [etag |-> "none", size_bytes |-> 0, events_count |-> 0]

\* The events FileProcessor::parse_events reads from each file on disk:
\* GitHubEvent with id ("" when the line has none), event_type ("unknown"
\* when it has none), whether created_at parses, and the payload.
Event(id, ty, created_ok, payload) ==
    [id |-> id, event_type |-> ty, created_ok |-> created_ok, payload |-> payload]

StoreEvents ==
    [f \in Files |->
        IF f = "f1"
        THEN << Event("e1", "PushEvent", TRUE, "p1"),
                Event("e2", "PushEvent", TRUE, "p1") >>
        ELSE << Event("e2", "PushEvent", TRUE, "p2"),
                Event("", "PushEvent", TRUE, "p2"),
                Event("e3", "unknown", FALSE, "p2") >>]

\* compressed_data.len()
FileSize == [f \in Files |-> IF f = "f1" THEN 10 ELSE 20]

\* FileProcessor::validate_event (enable_validation = true)
validate_event(e) ==
    /\ e.id # ""
    /\ e.event_type \notin {"", "unknown"}
    /\ e.created_ok

\* ProcessingResult.valid_events
valid_events(f) ==
    Cardinality({i \in 1..Len(StoreEvents[f]) : validate_event(StoreEvents[f][i])})

HasRow(t, id) == \E i \in 1..Len(t) : t[i].github_id = id

insert_event_noconflict(t, e, src) ==
    Append(t, [github_id |-> e.id, payload |-> e.payload, source_file |-> src])

\* INSERT INTO events ... ON CONFLICT (github_id) DO NOTHING
insert_event(t, e, src) ==
    IF HasRow(t, e.id)
    THEN t
    ELSE Append(t, [github_id |-> e.id, payload |-> e.payload,
                    source_file |-> src])

\* DatabaseManager::insert_events_batch: the table after the batch
RECURSIVE insert_events_batch(_, _, _)
insert_events_batch(t, events, src) ==
    IF events = <<>>
    THEN t
    ELSE insert_events_batch(insert_event(t, Head(events), src),
                             Tail(events), src)

\* DatabaseManager::mark_file_processed: the upsert on filename
mark_file_processed(l, filename, etag, size_bytes, events_count) ==
    [l EXCEPT ![filename] = [etag |-> etag, size_bytes |-> size_bytes,
                             events_count |-> events_count]]

\* DatabaseManager::is_file_processed(filename, etag)
is_file_processed(l, filename, etag) ==
    /\ l[filename] # NoRecord
    /\ (etag = NoEtag \/ l[filename].etag = etag)

StoreInit ==
    /\ tbl = <<>>
    /\ ledger = [f \in Files |-> NoRecord]
    /\ onDisk = {}
    /\ ingests = [f \in Files |-> [batches |-> 0, cycles |-> 0]]

----------------------------------------------------------------------------
(* scraper/file_processor.rs: FileProcessor::parse_events *)
(* The decompressed data is run-length coded: a run is n equal lines of   *)
(* one kind, "ok" (JSON of an event that passes validate_event), "inv"    *)
(* (JSON of an event that does not, e.g. without an id), "blank" or "bad" *)
(* (not JSON).  The loop over the lines is taken one run at a time.       *)

ErrorLimit == 100          \* file_processor.rs:148

NoParse == [events |-> <<>>, errors |-> 0]

\* the loop of parse_events from the run at position idx on, line_number
\* lines having been read; events is the vector of events (each known by
\* its line and kind), errors is errors.len()
RECURSIVE parse_runs(_, _, _, _, _)
parse_runs(data, idx, line_number, events, errors) ==
    IF idx > Len(data)
    THEN [events |-> events, errors |-> errors]
    ELSE LET run == data[idx]
         IN  IF run.kind = "blank"
             THEN parse_runs(data, idx + 1, line_number + run.n, events, errors)
             ELSE IF run.kind = "bad"
             THEN IF errors + run.n > ErrorLimit
                  THEN \* the push that makes errors.len() > 100 is followed
                       \* by the push of the truncation marker and break
                       [events |-> events, errors |-> ErrorLimit + 2]
                  ELSE parse_runs(data, idx + 1, line_number + run.n,
                                  events, errors + run.n)
             ELSE parse_runs(data, idx + 1, line_number + run.n,
                      events \o [i \in 1..run.n |->
                                    [line |-> line_number + i, kind |-> run.kind]],
                      errors)

parse_events(data) == parse_runs(data, 1, 0, <<>>, 0)

\* the runs the inputs are made of
Segments ==
    { [kind |-> "ok", n |-> 1], [kind |-> "inv", n |-> 1],
      [kind |-> "blank", n |-> 1], [kind |-> "bad", n |-> 1],
      [kind |-> "bad", n |-> ErrorLimit] }

ParseInputs ==
    UNION { [1..k -> Segments] : k \in 0..MaxSegs }

ParseInit ==
    /\ parseIn = <<>>
    /\ parsed = NoParse

----------------------------------------------------------------------------
(* scraper/downloader.rs *)

MaxRetries == 3            \* main_scraper.rs:47 (max_retries)
RetryDelay == 2            \* main_scraper.rs:48 (retry_delay_seconds)

NoSize == 0 - 1            \* no file at local_path, expected_size None
NoLength == 0 - 1          \* the response has no Content-Length

\* what one GET can answer: the status, Content-Length, the bytes the
\* stream delivers, and whether the stream ends with an error
Responses ==
    [http_ok : BOOLEAN, content_length : {NoLength, 1, 2},
     bytes : {0, 1, 2}, stream_ok : BOOLEAN]

NoResponse == [http_ok |-> FALSE, content_length |-> NoLength,
               bytes |-> 0, stream_ok |-> FALSE]

NoResult == [status |-> "none", size_bytes |-> 0, retries_used |-> 0]

download_attempt_nocheck(resp, file) ==
    IF ~resp.http_ok
    THEN [ok |-> FALSE, why |-> "http", size |-> 0, file |-> file]
    ELSE IF ~resp.stream_ok
    THEN [ok |-> FALSE, why |-> "stream", size |-> 0, file |-> resp.bytes]
    ELSE [ok |-> TRUE, why |-> "ok", size |-> resp.bytes, file |-> resp.bytes]

\* Downloader::download_attempt on the response resp, file being what is
\* at local_path before: the Result, and the file afterwards
download_attempt(resp, file) ==
    IF ~resp.http_ok
    THEN [ok |-> FALSE, why |-> "http", size |-> 0, file |-> file]
    ELSE IF ~resp.stream_ok
    THEN [ok |-> FALSE, why |-> "stream", size |-> 0, file |-> resp.bytes]
    ELSE IF resp.content_length # NoLength /\ resp.bytes # resp.content_length
    THEN [ok |-> FALSE, why |-> "size", size |-> 0, file |-> resp.bytes]
    ELSE [ok |-> TRUE, why |-> "ok", size |-> resp.bytes, file |-> resp.bytes]

\* Duration::from_secs_f64(retry_delay_seconds * attempt as f64)
retry_delay(attempt) == RetryDelay * attempt

DlInit ==
    /\ dlPc = "idle"
    /\ dlAttempt = 0
    /\ dlFile = NoSize
    /\ dlWaits = <<>>
    /\ dlLog = <<>>
    /\ dlLast = NoResponse
    /\ dlResult = NoResult

----------------------------------------------------------------------------
(* github/dangling_commits.rs: RateLimiter and DanglingCommitFetcher *)
(* delay_factor is kept in tenths (1.0 is 10); reset_time is kept as the  *)
(* seconds from now until the reset (wait).                               *)

DefaultRemaining == 5000     \* dangling_commits.rs:69
DefaultWait == 3600          \* dangling_commits.rs:70
LowRemaining == 100          \* dangling_commits.rs:79

\* RateLimiter::default
DefaultLimiter ==
    [requests_remaining |-> DefaultRemaining, wait |-> DefaultWait,
     delay_factor |-> 10]

NoRemaining == 0 - 1         \* remaining: None
NoReset == 0 - 1000          \* reset_timestamp: None

\* RateLimiter::wait_if_needed: the limiter after the sleeps
wait_if_needed(l) ==
    IF l.requests_remaining <= LowRemaining /\ l.wait > 0
    THEN [l EXCEPT !.requests_remaining = DefaultRemaining,
                   !.wait = DefaultWait]
    ELSE l

delay_factor_for_ge(r) ==
    IF r >= 1000 THEN 10
    ELSE IF r >= 500 THEN 15
    ELSE IF r >= 100 THEN 20
    ELSE 30

\* the match on requests_remaining in update_from_response
delay_factor_for(r) ==
    IF r > 1000 THEN 10
    ELSE IF r > 500 THEN 15
    ELSE IF r > 100 THEN 20
    ELSE 30

\* RateLimiter::update_from_response(remaining, reset_timestamp), where
\* reset_in is reset_ts - Utc::now().timestamp().  A negative difference
\* cast to u64 is a duration that overflows Instant::now() + duration:
\* the call panics after the assignment of requests_remaining.
update_from_response(l, remaining, reset_in) ==
    LET l1 == IF remaining # NoRemaining
              THEN [l EXCEPT !.requests_remaining = remaining]
              ELSE l
    IN  IF reset_in # NoReset /\ reset_in < 0
        THEN [limiter |-> l1, result |-> "panic"]
        ELSE LET l2 == IF reset_in # NoReset
                       THEN [l1 EXCEPT !.wait = reset_in]
                       ELSE l1
             IN  [limiter |-> [l2 EXCEPT !.delay_factor =
                                   delay_factor_for(l2.requests_remaining)],
                  result |-> "ok"]

\* what the request of a commit can be answered with
Answers == {"commit", "404", "403", "429", "500", "transport"}

\* DanglingCommitFetcher::fetch_commit: answer is "cached" for a commit
\* found in the cache, "badrepo" for a repository that is not owner/repo,
\* "transport404" for an error of the client whose text holds "404"
fetch_commit(l, answer) ==
    IF answer = "cached"
    THEN [limiter |-> l, result |-> "Some"]
    ELSE LET w == wait_if_needed(l)
         IN  IF answer = "badrepo"
             THEN [limiter |-> w, result |-> "Err: invalid repository"]
             ELSE IF answer = "commit"
             THEN [limiter |-> [w EXCEPT !.requests_remaining = @ - 1],
                   result |-> "Some"]
             ELSE IF answer = "404"
             THEN [limiter |-> w, result |-> "None"]
             ELSE IF answer = "403"
             THEN [limiter |-> [w EXCEPT !.delay_factor = @ * 2,
                                         !.requests_remaining = 0],
                   result |-> "Err: rate limited or forbidden"]
             ELSE IF answer = "429"
             THEN [limiter |-> [w EXCEPT !.requests_remaining = 0],
                   result |-> "Err: rate limited"]
             ELSE IF answer = "500"
             THEN [limiter |-> w, result |-> "Err: api error"]
             ELSE IF answer = "transport404"
             THEN [limiter |-> w, result |-> "Err: failed 404"]
             ELSE [limiter |-> w, result |-> "Err: failed"]

\* DanglingCommitFetcher::commit_exists
commit_exists(l, answer) ==
    IF answer = "badrepo"
    THEN [limiter |-> l, result |-> "Err: invalid repository"]
    ELSE LET w == wait_if_needed(l)
         IN  IF answer = "commit"
             THEN [limiter |-> [w EXCEPT !.requests_remaining = @ - 1],
                   result |-> "true"]
             ELSE IF answer = "404"
             THEN [limiter |-> w, result |-> "false"]
             ELSE IF answer \in {"403", "429"}
             THEN [limiter |-> [w EXCEPT !.requests_remaining = 0],
                   result |-> "Err: rate limited"]
             ELSE IF answer = "500"
             THEN [limiter |-> w, result |-> "Err: api error"]
             ELSE [limiter |-> w, result |-> "Err: failed"]

\* the values of the x-ratelimit-remaining header tried
Remainings == {100, 101, 300, 500, 501, 800, 1000, 1001, 1500}

\* reset_ts - now of the x-ratelimit-reset header tried
ResetsIn == {NoReset, 0 - 5, 0, 60}

\* the last call: its argument, its result, and requests_remaining and
\* delay_factor as they were before it
NoCall == [op |-> "none", arg |-> "none", result |-> "none",
           before |-> [requests_remaining |-> DefaultRemaining,
                       delay_factor |-> 10]]

RlInit ==
    /\ limiter = DefaultLimiter
    /\ rlRet = NoCall
    /\ rlCalls = 0

----------------------------------------------------------------------------
(* realtime/mod.rs: GitHubEventMonitor *)
(* The events API answers with the newest events first: a response is the *)
(* k newest of the events published so far, k up to the page size.        *)

NoId == 0

\* events.into_iter().take_while(|event| event.id != last_id)
RECURSIVE take_while_all(_, _)
take_while_all(events, last_id) ==
    IF events = <<>>
    THEN <<>>
    ELSE <<Head(events)>> \o take_while_all(Tail(events), last_id)

RECURSIVE take_while(_, _)
take_while(events, last_id) ==
    IF events = <<>> \/ Head(events) = last_id
    THEN <<>>
    ELSE <<Head(events)>> \o take_while(Tail(events), last_id)

\* poll_events on the response body events: the new events
new_events(events, last_id) ==
    IF last_id # NoId THEN take_while(events, last_id) ELSE events

\* the k newest of n published events, newest first
Feed(n, k) == [i \in 1..k |-> n - i + 1]

\* check_for_dangling_commit on the result of fetch_commit: Ok(x) becomes
\* Ok(Some(x)), an Err whose text holds "404" becomes Ok(None)
check_for_dangling_commit(result) ==
    IF result \in {"Some", "None"}
    THEN "Ok(Some)"
    ELSE IF result = "Err: failed 404"
    THEN "Ok(None)"
    ELSE "Err"

NoPush == [kind |-> "none", before |-> "none", fetch |-> "none",
           marked |-> FALSE, scanned |-> "none", alert |-> FALSE]

\* process_push_event for a payload with the given before, the fetch of
\* the before commit having returned fetch, the scanner finding secrets
\* or not: whether "Found dangling commit" was logged, what was scanned,
\* whether an alert was sent
process_push_event(before, fetch, secrets) ==
    IF before = "zero"
    THEN [kind |-> "PushEvent", before |-> before, fetch |-> "none",
          marked |-> FALSE, scanned |-> "none", alert |-> FALSE]
    ELSE IF check_for_dangling_commit(fetch) = "Ok(Some)"
    THEN [kind |-> "PushEvent", before |-> before, fetch |-> fetch,
          marked |-> TRUE,
          scanned |-> IF fetch = "Some" THEN "body" ELSE "empty",
          alert |-> fetch = "Some" /\ secrets]
    ELSE [kind |-> "PushEvent", before |-> before, fetch |-> fetch,
          marked |-> FALSE, scanned |-> "none", alert |-> FALSE]

\* tokio::time::sleep(Duration::from_secs(30)) of the Err arm
PollErrorWait == 30

\* the ways poll_events returns Err: send fails, the status is not a
\* success, the body is not a list of events
PollErrors == {"transport", "status", "json"}

\* start_monitoring, the match on the result of poll_events after errs
\* polling errors in a row: what becomes of the loop and the sleep
poll_result(result, errs) ==
    IF result = "Ok"
    THEN [loop |-> "running", sleep |-> 0]
    ELSE [loop |-> "running", sleep |-> PollErrorWait]

\* process_queue, the match on the result of process_single_event for the
\* head of the events taken from the queue: the events still to handle and
\* what becomes of the loop (process_queue returns Ok(()) at its end)
event_result_propagate(result, events) ==
    IF result = "Ok"
    THEN [events |-> Tail(events), loop |-> "running"]
    ELSE [events |-> <<>>, loop |-> "failed"]

event_result(result, events) ==
    [events |-> Tail(events), loop |-> "running"]

\* the loop of start_monitoring is at poll_events
AtPoll == rtLoop = "running" /\ rtQueue = <<>>

RtInit ==
    /\ rtLoop = "running"
    /\ rtOutcome = "none"
    /\ rtErrs = 0
    /\ rtSleep = 0
    /\ rtLog = 0
    /\ rtLast = NoId
    /\ rtQueue = <<>>
    /\ rtSeen = [id \in 1..MaxEvents |-> 0]
    /\ rtPolled = <<>>
    /\ rtPush = NoPush

----------------------------------------------------------------------------
(* secrets/scanner.rs: SecretScanner *)

\* A text is the sequence of the strings in it that a pattern can match;
\* a compiled regex is the set of the strings it matches.  Entropies and
\* thresholds are in tenths of a bit.

\* entropy_threshold: None
NoThreshold == 0 - 1

Strings == {"akia", "mid", "hi", "word"}

\* shannon_entropy(&matched_text)
shannon_entropy(str) ==
    CASE str = "akia" -> 36
      [] str = "mid"  -> 42
      [] str = "hi"   -> 47
      [] str = "word" -> 25

\* hex::encode(Sha256(matched_text)): equal for equal texts only
sha256_hex(str) == <<"sha256", str>>

\* load_built_in_detectors: three of the detectors, in their order
BuiltIn ==
    << [name |-> "AWS Access Key ID", pattern |-> {"akia"},
        entropy_threshold |-> NoThreshold],
       [name |-> "AWS Secret Access Key", pattern |-> {"mid", "hi"},
        entropy_threshold |-> 45],
       [name |-> "AWS Session Token", pattern |-> {"mid", "hi"},
        entropy_threshold |-> 40] >>

\* compile_patterns: patterns.insert(name, regex) for every detector
RECURSIVE compile_patterns(_, _)
compile_patterns(detectors, patterns) ==
    IF detectors = <<>>
    THEN patterns
    ELSE LET d == Head(detectors)
         IN  compile_patterns(Tail(detectors),
                 [n \in DOMAIN patterns \cup {d.name} |->
                     IF n = d.name THEN d.pattern ELSE patterns[n]])

\* regex.find_iter(text): the positions of the matches, in order
find_iter(regex, text) ==
    SelectSeq([i \in 1..Len(text) |-> i], LAMBDA i : text[i] \in regex)

\* if let Some(threshold) = detector.entropy_threshold
\*     { if entropy < threshold { continue; } }
passes_threshold_always(entropy, threshold) == TRUE

passes_threshold(entropy, threshold) ==
    ~(threshold # NoThreshold /\ entropy < threshold)

\* scan_text, the body of the loop for the detector at index d (kept in
\* the match to tell detectors of one name apart)
detector_matches(detectors, patterns, text, d) ==
    IF detectors[d].name \notin DOMAIN patterns
    THEN <<>>
    ELSE LET pos == find_iter(patterns[detectors[d].name], text)
             all == [j \in 1..Len(pos) |->
                       [detector_name |-> detectors[d].name,
                        detector |-> d,
                        matched_text |-> text[pos[j]],
                        start_position |-> pos[j],
                        entropy |-> shannon_entropy(text[pos[j]]),
                        hash |-> sha256_hex(text[pos[j]])]]
         IN  SelectSeq(all, LAMBDA m :
                 passes_threshold(m.entropy, detectors[d].entropy_threshold))

RECURSIVE scan_from(_, _, _, _)
scan_from(detectors, patterns, text, d) ==
    IF d > Len(detectors)
    THEN <<>>
    ELSE detector_matches(detectors, patterns, text, d)
            \o scan_from(detectors, patterns, text, d + 1)

scan_text(detectors, patterns, text) == scan_from(detectors, patterns, text, 1)

\* the lines of a patch: added ("+"), removed ("-"), context (" ") and
\* the "+++" header, each with the string it holds
LineKinds == {"+", "-", " ", "+++"}

\* scan_patch: the added lines without their prefix, scanned as a text
scan_patch_notremoved(detectors, patterns, patch) ==
    LET added == SelectSeq(patch, LAMBDA l : l.kind # "-")
        added_content == [i \in 1..Len(added) |-> added[i].str]
    IN  IF added = <<>>
        THEN <<>>
        ELSE scan_text(detectors, patterns, added_content)

scan_patch(detectors, patterns, patch) ==
    LET added == SelectSeq(patch, LAMBDA l : l.kind = "+")
        added_content == [i \in 1..Len(added) |-> added[i].str]
    IN  IF added = <<>>
        THEN <<>>
        ELSE scan_text(detectors, patterns, added_content)

\* deduplicate_matches: the first match of every hash, in order
RECURSIVE deduplicate_from(_, _, _)
deduplicate_from(matches, i, seen_hashes) ==
    IF i > Len(matches)
    THEN <<>>
    ELSE IF matches[i].hash \in seen_hashes
    THEN deduplicate_from(matches, i + 1, seen_hashes)
    ELSE <<matches[i]>>
            \o deduplicate_from(matches, i + 1, seen_hashes \cup {matches[i].hash})

deduplicate_matches(matches) == deduplicate_from(matches, 1, {})

\* detectors a caller adds: one of a new name, one that takes the name of
\* a built-in detector
Custom ==
    { [name |-> "Custom", pattern |-> {"word", "hi"}, entropy_threshold |-> 30],
      [name |-> "AWS Session Token", pattern |-> {"akia", "mid"},
       entropy_threshold |-> NoThreshold] }

Texts == UNION {[1..k -> Strings] : k \in 0..MaxWords}

Patches == UNION {[1..k -> [kind : LineKinds, str : {"mid", "hi"}]] : k \in 0..MaxWords}

NoScan == [mode |-> "none", text |-> <<>>]

ScInit ==
    /\ scDetectors = BuiltIn
    /\ scPatterns = compile_patterns(BuiltIn, <<>>)
    /\ scIn = NoScan
    /\ scOut = <<>>

----------------------------------------------------------------------------
(* secrets/validator.rs: SecretValidator *)

\* detector names, as the words they are made of
DetectorNames ==
    { <<"AWS", "Access", "Key", "ID">>, <<"AWS", "Secret", "Access", "Key">>,
      <<"AWS", "Session", "Token">>,
      <<"GitHub", "Personal", "Access", "Token">>, <<"Slack", "Bot", "Token">>,
      <<"Twilio", "API", "Key">>, <<"JWT", "Token">>,
      <<"Generic", "Password">> }

\* name.contains(words)
contains(name, words) ==
    \E i \in 0..(Len(name) - Len(words)) :
        \A j \in 1..Len(words) : name[i + j] = words[j]

\* what the service answers to the request of a probe: a success, the
\* status that rejects the key, another status, a body that is not JSON,
\* no answer within the timeout of the client, no connection
ProbeAnswers == {"success", "rejected", "other", "not_json", "timeout", "refused"}

\* the shapes of a matched text a JWT probe tells apart
TokenShapes == {"two_parts", "bad_base64", "bad_json", "expired", "live"}

\* Ok(ValidationResult { .. }) of a probe, no request sent
Checked(is_valid, method, error) ==
    [ok |-> TRUE, is_valid |-> is_valid, validation_method |-> method,
     error_message |-> error, secret_hash |-> "", sent |-> {}]

\* the result of a probe that sent a request to service
Probed(service, ok, is_valid, method, error) ==
    [ok |-> ok, is_valid |-> is_valid, validation_method |-> method,
     error_message |-> error, secret_hash |-> "", sent |-> {service}]

validate_aws_credentials_sts(name, aws_config, answer) ==
    IF contains(name, <<"Access", "Key">>)
    THEN Probed("sts.amazonaws.com", TRUE, answer = "success", "aws_sts", "none")
    ELSE Checked(FALSE, "aws_sts_disabled", "AWS validation disabled for security")

validate_aws_credentials(name, aws_config, answer) ==
    IF aws_config
    THEN IF contains(name, <<"Access", "Key">>)
         THEN Checked(FALSE, "aws_access_key_check",
                      "Cannot validate access key without secret key")
         ELSE Checked(FALSE, "aws_sts_disabled",
                      "AWS validation disabled for security")
    ELSE Checked(FALSE, "aws_no_config", "AWS config not available")

validate_github_token(answer) ==
    IF answer \in {"timeout", "refused"}
    THEN Probed("api.github.com", FALSE, FALSE, "none", "GitHub API request failed")
    ELSE IF answer \in {"success", "not_json"}
    THEN Probed("api.github.com", TRUE, TRUE, "github_api", "none")
    ELSE IF answer = "rejected"
    THEN Probed("api.github.com", TRUE, FALSE, "github_api",
                "Token is invalid or expired")
    ELSE Probed("api.github.com", TRUE, FALSE, "github_api", "HTTP status")

validate_slack_token(answer) ==
    IF answer \in {"timeout", "refused"}
    THEN Probed("slack.com", FALSE, FALSE, "none", "Slack API request failed")
    ELSE IF answer = "not_json"
    THEN Probed("slack.com", FALSE, FALSE, "none", "Failed to parse Slack response")
    ELSE IF answer = "success"
    THEN Probed("slack.com", TRUE, TRUE, "slack_auth_test", "none")
    ELSE Probed("slack.com", TRUE, FALSE, "slack_auth_test", "error of the body")

validate_twilio_key(answer) ==
    Checked(FALSE, "twilio_format_check", "Twilio validation requires account SID")

validate_jwt_token(shape) ==
    CASE shape = "two_parts"  ->
            Checked(FALSE, "jwt_structure_check", "Invalid JWT structure")
      [] shape = "bad_base64" ->
            Checked(FALSE, "jwt_decode_check", "Invalid JWT base64 encoding")
      [] shape = "bad_json"   ->
            Checked(FALSE, "jwt_decode_check", "Invalid JWT JSON structure")
      [] shape = "expired"    ->
            Checked(FALSE, "jwt_decode_check", "Token is expired")
      [] shape = "live"       ->
            Checked(TRUE, "jwt_decode_check", "none")

\* validate_secret, the match on the detector name: the first arm whose
\* word the name contains
probe(name, shape, aws_config, answer) ==
    IF contains(name, <<"AWS">>) THEN validate_aws_credentials(name, aws_config, answer)
    ELSE IF contains(name, <<"GitHub">>) THEN validate_github_token(answer)
    ELSE IF contains(name, <<"Slack">>) THEN validate_slack_token(answer)
    ELSE IF contains(name, <<"Twilio">>) THEN validate_twilio_key(answer)
    ELSE IF contains(name, <<"JWT">>) THEN validate_jwt_token(shape)
    ELSE Checked(FALSE, "unsupported",
                 "Validation not supported for this secret type")

\* validate_secret: the result of the probe with the hash of the match,
\* an Err of the probe turned into a result of its own
validate_secret(name, shape, aws_config, answer) ==
    LET result == probe(name, shape, aws_config, answer)
    IN  IF result.ok
        THEN [result EXCEPT !.secret_hash = sha256_hex(shape)]
        ELSE [ok |-> TRUE, is_valid |-> FALSE, validation_method |-> name,
              error_message |-> result.error_message,
              secret_hash |-> sha256_hex(shape), sent |-> result.sent]

\* how the readers of a ValidationResult take it: if validation.is_valid
\* { .. }, anything else is a secret that is not valid
MarkedInvalid(result) == ~result.is_valid

NoValidation == [ok |-> TRUE, is_valid |-> FALSE, validation_method |-> "none",
                 error_message |-> "none", secret_hash |-> "", sent |-> {}]

NoMatch == [name |-> <<>>, shape |-> "none", answer |-> "none"]

VlInit ==
    /\ vlIn = NoMatch
    /\ vlOut = NoValidation
    /\ vlSent = {}

----------------------------------------------------------------------------
(* ai/triage.rs: AITriageAgent::determine_revocation_priority *)

\* Scores are in hundredths: 0.8 is 80.

RiskFactorTypes == {"HighPrivileges", "ProductionEnvironment", "PublicRepository"}

\* risk_factors.iter().any(|rf| matches!(rf.factor_type, HighPrivileges))
has_active_validation_none(risk_factors) ==
    "HighPrivileges" \notin risk_factors

has_active_validation(risk_factors) ==
    "HighPrivileges" \in risk_factors

\* risk_factors.iter().any(|rf| matches!(rf.factor_type, ProductionEnvironment))
has_production_indicators(risk_factors) ==
    "ProductionEnvironment" \in risk_factors

determine_revocation_priority_and(impact_score, bounty_potential, risk_factors) ==
    IF has_active_validation(risk_factors)
          /\ (impact_score > 80 /\ has_production_indicators(risk_factors))
    THEN "Immediate"
    ELSE IF has_active_validation(risk_factors) \/ impact_score > 60
    THEN "High"
    ELSE IF impact_score > 40 \/ bounty_potential > 60
    THEN "Medium"
    ELSE IF impact_score > 20
    THEN "Low"
    ELSE "Monitor"

determine_revocation_priority(impact_score, bounty_potential, risk_factors) ==
    IF has_active_validation(risk_factors)
          /\ (impact_score > 80 \/ has_production_indicators(risk_factors))
    THEN "Immediate"
    ELSE IF has_active_validation(risk_factors) \/ impact_score > 60
    THEN "High"
    ELSE IF impact_score > 40 \/ bounty_potential > 60
    THEN "Medium"
    ELSE IF impact_score > 20
    THEN "Low"
    ELSE "Monitor"

\* impact scores and bounty potentials at and next to the thresholds
ImpactScores == {0, 20, 21, 40, 41, 60, 61, 80, 81, 100}

BountyPotentials == {60, 61}

NoTriage == [impact_score |-> 0, bounty_potential |-> 0, risk_factors |-> {}]

TrInit ==
    /\ trIn = NoTriage
    /\ trOut = "none"
    /\ trPrevIn = NoTriage
    /\ trPrevOut = "none"

----------------------------------------------------------------------------
(* realtime/mod.rs: send_webhook, generate_webhook_signature *)

\* A message is a sequence of chunks: a byte, or the digest of a message.
\* SHA-256 is not computed: the digest of a message is a chunk that holds
\* the message, so two digests are equal exactly when their messages are.

Byte(n) == [kind |-> "byte", value |-> n, of |-> <<>>]

bytes(str) == [i \in 1..Len(str) |-> Byte(str[i])]

\* Sha256::new(), update(..) for message, finalize()
sha256(message) == <<[kind |-> "digest", value |-> 0, of |-> message]>>

\* format!("sha256={}", hex::encode(result))
sha256_header(result) == <<"sha256=", <<"hex", result>>>>

\* hasher.update(secret.as_bytes()); hasher.update(payload_str.as_bytes())
hashed_input(payload_str, secret) == bytes(secret) \o bytes(payload_str)

generate_webhook_signature(payload_str, secret) ==
    sha256_header(sha256(hashed_input(payload_str, secret)))

\* endpoint.secret: None
NoSecret == <<0 - 1>>

\* no X-Hub-Signature-256 header on the request
NoHeader == <<"none", <<>>>>

\* send_webhook: the signature header of the request for the body
webhook_header(body, secret) ==
    IF secret # NoSecret
    THEN generate_webhook_signature(body, secret)
    ELSE NoHeader

\* the bytes bodies and secrets are made of
BodyBytes == {34, 123, 125}

Bodies == UNION {[1..k -> BodyBytes] : k \in 0..MaxBody}

Secrets == UNION {[1..k -> BodyBytes] : k \in 0..MaxSecret}

SgInit ==
    /\ sgIn = [body |-> <<>>, secret |-> NoSecret]
    /\ sgOut = NoHeader

----------------------------------------------------------------------------
(* api/state.rs, api/handlers.rs *)

Requests == 1..MaxRequests

RequestKinds == {"start", "stop", "pause", "resume", "restart"}

NoRequest == [kind |-> "none", pc |-> "idle", code |-> 0]

\* the mutex of AppState.main_scraper is free
NoHolder == 0

\* AppState::new: a ScraperManager of its own, main_scraper None
ApiInit ==
    /\ apiMgr = DefaultStatus(0)
    /\ msMgr = DefaultStatus(0)
    /\ msInst = 0
    /\ msLock = NoHolder
    /\ msShutdown = FALSE
    /\ apiReq = [r \in Requests |-> NoRequest]

\* the call a handler makes on a ScraperManager
manager_call(kind, s, t) ==
    IF kind = "start" THEN start(s, t)
    ELSE IF kind = "stop" THEN stop(s, t)
    ELSE IF kind = "pause" THEN pause(s, t)
    ELSE IF kind = "resume" THEN resume(s, t)
    ELSE restart(s, t)

\* the answer of a handler whose call on app_state.scraper_manager failed
rejected_code(kind) ==
    IF kind \in {"pause", "resume"} THEN 200 ELSE 500

----------------------------------------------------------------------------
(* performance/mod.rs *)

Hashes == {"h1", "h2"}

\* the secrets of one request, each given by its hash
Batches == UNION {[1..k -> Hashes] : k \in 0..MaxBatch}

DedupCalls == 1..MaxDedupCalls

\* the loop of deduplicate_secrets from position i on, under the read lock
RECURSIVE dedup_from(_, _, _, _, _)
dedup_from(secrets, i, dedup_store, unique_secrets, new_hashes) ==
    IF i > Len(secrets)
    THEN [unique_secrets |-> unique_secrets, new_hashes |-> new_hashes]
    ELSE IF secrets[i] \notin dedup_store /\ secrets[i] \notin new_hashes
    THEN dedup_from(secrets, i + 1, dedup_store,
                    Append(unique_secrets, secrets[i]),
                    new_hashes \cup {secrets[i]})
    ELSE dedup_from(secrets, i + 1, dedup_store, unique_secrets, new_hashes)

NoDedup == [pc |-> "idle", secrets |-> <<>>, unique_secrets |-> <<>>,
           new_hashes |-> {}]

\* PerformanceEngine::new: an empty deduplication store
DdInit ==
    /\ ddStore = {}
    /\ ddReq = [c \in DedupCalls |-> NoDedup]

----------------------------------------------------------------------------
(* Spec: the coordinator under concurrent callers.                         *)
(* Every operation of ScraperManager locks `status` for its whole body.    *)
(* The body of a successful operation is two steps inside the critical     *)
(* section: the assignments to state, start_time and events_processed,     *)
(* then the remaining assignments and the release of the mutex.            *)

Threads == {"t1", "t2"}

NoPend == [op |-> "none", from |-> "none", at |-> 0, result |-> DefaultStatus(0)]
NoRet  == [op |-> "none", ok |-> TRUE]
NoSnap == [state |-> "none"]

\* the status after the first assignments of an operation whose result is r
Mix(s, r) ==
    [s EXCEPT !.state = r.state, !.start_time = r.start_time,
              !.events_processed = r.events_processed]

\* self.status.lock() as taken by a mutating operation
LockFree(l) == l = "none"

CanSnapshot_nolock(l) == TRUE

\* self.status.lock() as taken by get_status
CanSnapshot(l) == l = "none"

\* one call of a mutating operation whose outcome on the current status is r
Enter(th, op, r) ==
    /\ LockFree(lock)
    /\ IF r.ok
       THEN /\ lock' = th
            /\ pend' = [op |-> op, from |-> status.state, at |-> now,
                        result |-> r.status]
            /\ status' = Mix(status, r.status)
            /\ UNCHANGED <<ret, committed>>
       ELSE /\ status' = r.status
            /\ committed' = r.status
            /\ ret' = [op |-> op, ok |-> FALSE]
            /\ UNCHANGED <<lock, pend>>
    /\ snap' = NoSnap
    /\ UNCHANGED <<now, pipeVars, extVars>>

Start(th)   == Enter(th, "start", start(status, now))
Stop(th)    == Enter(th, "stop", stop(status, now))
Pause(th)   == Enter(th, "pause", pause(status, now))
Resume(th)  == Enter(th, "resume", resume(status, now))
Restart(th) == Enter(th, "restart", restart(status, now))

ProgressEvents == {1000, 2000}
ProgressFiles  == {1}
ProgressNames  == {"f1"}

UpdateProgress(th) ==
    \E e \in ProgressEvents, f \in ProgressFiles, c \in ProgressNames :
        Enter(th, "update_progress", update_progress(status, now, e, f, c))

AddError(th) ==
    /\ status.error_count < MaxErrors
    /\ Enter(th, "add_error", add_error(status, now))

\* the end of the critical section of a successful operation
Finish(th) ==
    /\ lock = th
    /\ status' = pend.result
    /\ committed' = pend.result
    /\ ret' = [op |-> pend.op, ok |-> TRUE]
    /\ lock' = "none"
    /\ pend' = NoPend
    /\ snap' = NoSnap
    /\ UNCHANGED <<now, pipeVars, extVars>>

GetStatus(th) ==
    /\ CanSnapshot(lock)
    /\ lock # th
    /\ snap' = get_status(status)
    /\ ret' = [op |-> "get_status", ok |-> TRUE]
    /\ UNCHANGED <<status, lock, pend, committed, now, pipeVars, extVars>>

Tick ==
    /\ now < MaxTime
    /\ now' = now + 1
    /\ UNCHANGED <<status, mgrVars, pipeVars, extVars>>

MgrInit ==
    /\ lock = "none"
    /\ pend = NoPend
    /\ ret = NoRet
    /\ committed = DefaultStatus(0)
    /\ snap = NoSnap

Init ==
    /\ status = DefaultStatus(0)
    /\ now = 0
    /\ MgrInit
    /\ PipeIdle
    /\ sample = NoSample
    /\ StoreInit
    /\ ParseInit
    /\ DlInit
    /\ RlInit
    /\ RtInit
    /\ ScInit
    /\ VlInit
    /\ TrInit
    /\ SgInit
    /\ ApiInit
    /\ DdInit

Next ==
    \/ \E th \in Threads : Start(th)
    \/ \E th \in Threads : Stop(th)
    \/ \E th \in Threads : Pause(th)
    \/ \E th \in Threads : Resume(th)
    \/ \E th \in Threads : Restart(th)
    \/ \E th \in Threads : UpdateProgress(th)
    \/ \E th \in Threads : AddError(th)
    \/ \E th \in Threads : Finish(th)
    \/ \E th \in Threads : GetStatus(th)
    \/ Tick

Spec == Init /\ [][Next]_vars

----------------------------------------------------------------------------
(* GovSpec: the two ResourceMonitor instances sampled with arbitrary usage *)

Sample(m) ==
    \E mem \in MemSamples, disk \in DiskSamples, cpu \in CpuSamples :
        /\ emergency' = [emergency EXCEPT ![m] = get_resource_status(mem, disk, cpu)]
        /\ sample' = [monitor |-> m, mem |-> mem, disk |-> disk, cpu |-> cpu]
        /\ UNCHANGED <<status, now, mgrVars, pc, timer, mainFlag, archFlag,
                       workers, opc, opsLeft, dbOpen, sinceEm, storeVars,
                       compVars>>

GovNext == \E m \in Monitors : Sample(m)

GovSpec == Init /\ [][GovNext]_vars

----------------------------------------------------------------------------
(* PipeSpec: MainScraper::start -> run_main_loop -> run_continuous_scraping *)
(* -> process_file, with an operator that calls the coordinator and        *)
(* MainScraper::stop while the loops run.  Operations of the coordinator   *)
(* are single steps here (they are serialised by the mutex, see Spec).     *)

Min(a, b) == IF a < b THEN a ELSE b

\* time::sleep(d) followed by the code at label l
SleepThen(d, l) == pc' = l /\ timer' = d

Awake(l) == pc = l /\ timer = 0

\* MainScraper::start: self.scraper_manager.start()?
ML_Start ==
    /\ Awake("new")
    /\ LET r == start(status, now)
       IN  /\ status' = r.status
           /\ pc' = IF r.ok THEN "ml_top" ELSE "failed"
    /\ UNCHANGED <<now, mgrVars, timer, mainFlag, archFlag, emergency,
                   workers, opc, opsLeft, dbOpen, sinceEm, extVars>>

\* while !self.shutdown_requested
ML_Top ==
    /\ Awake("ml_top")
    /\ pc' = IF mainFlag THEN "exited" ELSE "ml_run"
    /\ UNCHANGED <<status, now, mgrVars, timer, mainFlag, archFlag, emergency,
                   workers, opc, opsLeft, dbOpen, sinceEm, extVars>>

\* if !self.scraper_manager.is_running() { sleep(5); continue }
ML_Run ==
    /\ Awake("ml_run")
    /\ IF is_running(status)
       THEN pc' = "ml_res" /\ timer' = timer
       ELSE SleepThen(NotRunningWait, "ml_top")
    /\ UNCHANGED <<status, now, mgrVars, mainFlag, archFlag, emergency,
                   workers, opc, opsLeft, dbOpen, sinceEm, extVars>>

\* monitor.get_resource_status() of the monitor m at label l: emergency
\* leads to label em after a sleep of d seconds, anything else to label ok
CheckResources(m, l, em, d, ok) ==
    /\ Awake(l)
    /\ \E mem \in MemSamples, disk \in DiskSamples, cpu \in CpuSamples :
        LET e == get_resource_status(mem, disk, cpu)
        IN  /\ emergency' = [emergency EXCEPT ![m] = e]
            /\ pc' = IF e THEN em ELSE ok
            /\ timer' = IF e THEN d ELSE timer
            /\ sinceEm' = IF e THEN 0 ELSE sinceEm
    /\ UNCHANGED <<status, now, mgrVars, mainFlag, archFlag,
                   workers, opc, opsLeft, dbOpen, extVars>>

\* Err(e) of get_resource_status: logged, the loop goes on
CheckResourcesFails(l, ok) ==
    /\ Awake(l)
    /\ pc' = ok
    /\ UNCHANGED <<status, now, mgrVars, timer, mainFlag, archFlag, emergency,
                   workers, opc, opsLeft, dbOpen, sinceEm, extVars>>

ML_Resources == CheckResources("main", "ml_res", "ml_pause", 0, "cs_top")
ML_ResourcesFail == CheckResourcesFails("ml_res", "cs_top")

\* let _ = pause(); emergency_cleanup(); sleep(60)
ML_Pause ==
    /\ Awake("ml_pause")
    /\ status' = pause(status, now).status
    /\ SleepThen(EmergencyWait, "ml_resume")
    /\ UNCHANGED <<now, mgrVars, mainFlag, archFlag, emergency,
                   workers, opc, opsLeft, dbOpen, sinceEm, extVars>>

\* let _ = resume(); continue
ML_Resume ==
    /\ Awake("ml_resume")
    /\ status' = resume(status, now).status
    /\ pc' = "ml_top"
    /\ UNCHANGED <<now, mgrVars, timer, mainFlag, archFlag, emergency,
                   workers, opc, opsLeft, dbOpen, sinceEm, extVars>>

\* run_continuous_scraping: if !is_running() { sleep(5); continue }
CS_Top ==
    /\ Awake("cs_top")
    /\ IF is_running(status)
       THEN pc' = "cs_shut" /\ timer' = timer
       ELSE SleepThen(NotRunningWait, "cs_top")
    /\ UNCHANGED <<status, now, mgrVars, mainFlag, archFlag, emergency,
                   workers, opc, opsLeft, dbOpen, sinceEm, extVars>>

\* if *shutdown { break }: run_continuous_scraping returns Ok(()), the main
\* loop sleeps 10 seconds and tests its own flag
CS_Shutdown ==
    /\ Awake("cs_shut")
    /\ IF archFlag
       THEN SleepThen(CycleWait, "ml_top")
       ELSE pc' = "cs_res" /\ timer' = timer
    /\ UNCHANGED <<status, now, mgrVars, mainFlag, archFlag, emergency,
                   workers, opc, opsLeft, dbOpen, sinceEm, extVars>>

\* the monitor of the archive scraper: emergency sleeps 60 and continues
CS_Resources_nowait ==
    CheckResources("archive", "cs_res", "cs_top", 0, "cs_list")

CS_Resources ==
    CheckResources("archive", "cs_res", "cs_top", EmergencyWait, "cs_list")

CS_ResourcesFail == CheckResourcesFails("cs_res", "cs_list")

SpawnedWorker == [pc |-> "spawned", idx |-> 1, ev |-> 0, res |-> "none"]

\* get_available_files(): Ok(listing) starts one batch (at most batch_size
\* = 10 files are listed here) of one task per file; an empty listing, like
\* an Err (which is counted in stats), leads to the sleep of 300 seconds
CS_List ==
    /\ Awake("cs_list")
    /\ \E listing \in SUBSET Files :
        IF listing = {}
        THEN SleepThen(ListWait, "cs_top") /\ workers' = workers
        ELSE /\ workers' = [f \in Files |->
                    IF f \in listing THEN SpawnedWorker ELSE IdleWorker]
             /\ pc' = "cs_join"
             /\ timer' = timer
    /\ UNCHANGED <<status, now, mgrVars, mainFlag, archFlag, emergency,
                   opc, opsLeft, dbOpen, sinceEm, extVars>>

\* join_all(tasks), the count of successes, sleep(2)
CS_Join ==
    /\ Awake("cs_join")
    /\ \A f \in Files : workers[f].pc \in {"idle", "done"}
    /\ workers' = [f \in Files |-> IdleWorker]
    /\ SleepThen(BatchWait, "cs_check")
    /\ UNCHANGED <<status, now, mgrVars, mainFlag, archFlag, emergency,
                   opc, opsLeft, dbOpen, sinceEm, extVars>>

\* if !is_running() { break }: the batch was the last one either way;
\* sleep(300) before the next iteration
CS_AfterBatch ==
    /\ Awake("cs_check")
    /\ SleepThen(ListWait, "cs_top")
    /\ UNCHANGED <<status, now, mgrVars, mainFlag, archFlag, emergency,
                   workers, opc, opsLeft, dbOpen, sinceEm, extVars>>

----------------------------------------------------------------------------
(* ArchiveScraper::process_file, one task per file of the batch *)

Running(w) == w.pc \in {"lines", "final"}

\* semaphore.acquire(), then the GET of the file succeeds and the body
\* decompresses
W_Start(f) ==
    /\ workers[f].pc = "spawned"
    /\ Cardinality({g \in Files : Running(workers[g])}) < MaxConcurrent
    /\ workers' = [workers EXCEPT ![f].pc =
                      IF Len(FileLines[f]) = 0 THEN "final" ELSE "lines"]
    /\ UNCHANGED <<status, now, mgrVars, pc, timer, mainFlag, archFlag,
                   emergency, opc, opsLeft, dbOpen, sinceEm, extVars>>

\* the GET answers with a non-success status ("failed") or the request or
\* the decompression fails (Err)
W_StartFail(f) ==
    /\ workers[f].pc = "spawned"
    /\ Cardinality({g \in Files : Running(workers[g])}) < MaxConcurrent
    /\ \E r \in {"failed", "error"} :
        workers' = [workers EXCEPT ![f].pc = "done", ![f].res = r]
    /\ UNCHANGED <<status, now, mgrVars, pc, timer, mainFlag, archFlag,
                   emergency, opc, opsLeft, dbOpen, sinceEm, extVars>>

\* where the loop over the lines stands after the line(s) just handled:
\* the shutdown test at the end of the body breaks out of the loop
AfterLine(w, f, checked) ==
    IF (checked /\ archFlag) \/ w.idx >= Len(FileLines[f])
    THEN [w EXCEPT !.pc = "final"]
    ELSE [w EXCEPT !.idx = @ + 1]

\* One step of the loop over the lines.  A run of valid lines is handled in
\* one step while the shutdown flag is down (the flag is never lowered, so
\* the tests after those lines all see it down); once the flag is up one
\* line is handled and the test after it breaks.
W_Line(f) ==
    LET w   == workers[f]
        seg == FileLines[f][w.idx]
    IN
    /\ w.pc = "lines"
    /\ IF seg = BlankLine
       THEN \* continue: the shutdown test is skipped
            /\ workers' = [workers EXCEPT ![f] = AfterLine(w, f, FALSE)]
            /\ status' = status
       ELSE IF seg = BadLine
       THEN \* stats.errors_encountered += 1; scraper_manager.add_error()
            /\ status' = IF status.error_count < MaxErrors
                         THEN add_error(status, now).status
                         ELSE [status EXCEPT !.last_updated = now]
            /\ workers' = [workers EXCEPT ![f] = AfterLine(w, f, TRUE)]
       ELSE LET ev == IF archFlag THEN w.ev + 1 ELSE w.ev + seg
            IN  /\ status' =
                       IF ev \div ProgressEvery > w.ev \div ProgressEvery
                       THEN update_progress(status, now,
                                (ev \div ProgressEvery) * ProgressEvery,
                                1, f).status
                       ELSE status
                /\ workers' = [workers EXCEPT
                                  ![f] = AfterLine([w EXCEPT !.ev = ev], f, TRUE)]
    /\ UNCHANGED <<now, mgrVars, pc, timer, mainFlag, archFlag,
                   emergency, opc, opsLeft, dbOpen, sinceEm, extVars>>

\* stats.files_processed += 1 and the "success" result
W_Final(f) ==
    /\ workers[f].pc = "final"
    /\ workers' = [workers EXCEPT ![f].pc = "done", ![f].res = "success"]
    /\ UNCHANGED <<status, now, mgrVars, pc, timer, mainFlag, archFlag,
                   emergency, opc, opsLeft, dbOpen, sinceEm, extVars>>

----------------------------------------------------------------------------
(* The operator: the control surface of MainScraper *)

\* MainScraper::pause / resume / restart and a second start on the shared
\* coordinator: one call of the coordinator each
OpCall(r) ==
    /\ opc = "idle"
    /\ opsLeft > 0
    /\ opsLeft' = opsLeft - 1
    /\ status' = r.status
    /\ UNCHANGED <<now, mgrVars, pc, timer, mainFlag, archFlag, emergency,
                   workers, opc, dbOpen, sinceEm, extVars>>

Op_Start   == OpCall(start(status, now))
Op_Pause   == OpCall(pause(status, now))
Op_Resume  == OpCall(resume(status, now))
Op_Restart == OpCall(restart(status, now))

\* MainScraper::stop: self.shutdown_requested = true
Op_Stop1 ==
    /\ opc = "idle"
    /\ opsLeft > 0
    /\ opsLeft' = opsLeft - 1
    /\ mainFlag' = TRUE
    /\ opc' = "stop_mgr"
    /\ UNCHANGED <<status, now, mgrVars, pc, timer, archFlag, emergency,
                   workers, dbOpen, sinceEm, extVars>>

\* self.scraper_manager.stop()?
Op_Stop2 ==
    /\ opc = "stop_mgr"
    /\ status' = stop(status, now).status
    /\ opc' = "stop_archive"
    /\ UNCHANGED <<now, mgrVars, pc, timer, mainFlag, archFlag, emergency,
                   workers, opsLeft, dbOpen, sinceEm, extVars>>

\* scraper.shutdown(): *shutdown = true
Op_Stop3 ==
    /\ opc = "stop_archive"
    /\ archFlag' = TRUE
    /\ opc' = "stop_db"
    /\ UNCHANGED <<status, now, mgrVars, pc, timer, mainFlag, emergency,
                   workers, opsLeft, dbOpen, sinceEm, extVars>>

\* db.disconnect()
Op_Stop4 ==
    /\ opc = "stop_db"
    /\ dbOpen' = FALSE
    /\ opc' = "idle"
    /\ UNCHANGED <<status, now, mgrVars, pc, timer, mainFlag, archFlag,
                   emergency, workers, opsLeft, sinceEm, extVars>>

----------------------------------------------------------------------------
(* Time *)

\* one second passes (while the clock is below its bound)
PTick ==
    /\ now < MaxTime
    /\ now' = now + 1
    /\ timer' = IF timer > 0 THEN timer - 1 ELSE 0
    /\ sinceEm' = Min(sinceEm + 1, EmergencyWait)
    /\ UNCHANGED <<status, mgrVars, pc, mainFlag, archFlag, emergency,
                   workers, opc, opsLeft, dbOpen, extVars>>

\* the rest of the running sleep passes
PSleep ==
    /\ timer > 0
    /\ now' = Min(now + timer, MaxTime)
    /\ timer' = 0
    /\ sinceEm' = Min(sinceEm + timer, EmergencyWait)
    /\ UNCHANGED <<status, mgrVars, pc, mainFlag, archFlag, emergency,
                   workers, opc, opsLeft, dbOpen, extVars>>

MainTask ==
    \/ ML_Start
    \/ ML_Top
    \/ ML_Run
    \/ ML_Resources
    \/ ML_ResourcesFail
    \/ ML_Pause
    \/ ML_Resume
    \/ CS_Top
    \/ CS_Shutdown
    \/ CS_Resources
    \/ CS_ResourcesFail
    \/ CS_List
    \/ CS_Join
    \/ CS_AfterBatch

WorkerTask(f) ==
    \/ W_Start(f)
    \/ W_StartFail(f)
    \/ W_Line(f)
    \/ W_Final(f)

StopTask ==
    \/ Op_Stop2
    \/ Op_Stop3
    \/ Op_Stop4

PipeNext ==
    \/ MainTask
    \/ \E f \in Files : WorkerTask(f)
    \/ Op_Start
    \/ Op_Pause
    \/ Op_Resume
    \/ Op_Restart
    \/ Op_Stop1
    \/ StopTask
    \/ PTick
    \/ PSleep

PipeSpec == Init /\ [][PipeNext]_vars

\* the tasks of the runtime are scheduled fairly and sleeps end; the
\* operator is free never to call again
FairPipeSpec ==
    /\ PipeSpec
    /\ WF_vars(MainTask)
    /\ \A f \in Files : WF_vars(WorkerTask(f))
    /\ WF_vars(StopTask)
    /\ WF_vars(PSleep)

----------------------------------------------------------------------------
(* StoreSpec: the store and MainScraper::process_single_file *)

\* MainScraper::download_file puts the archive file in the download dir
DownloadFile(f) ==
    /\ f \notin onDisk
    /\ onDisk' = onDisk \cup {f}
    /\ UNCHANGED <<status, now, mgrVars, pipeVars, sample, tbl, ledger, ingests,
                   compVars>>

\* MainScraper::process_single_file: parse the file, then mark it processed
\* with etag None, its size and the number of valid events
ProcessSingleFile(f) ==
    /\ f \in onDisk
    /\ dbOpen
    /\ ledger' = mark_file_processed(ledger, f, NoEtag, FileSize[f],
                                     valid_events(f))
    /\ UNCHANGED <<status, now, mgrVars, pipeVars, sample, tbl, onDisk, ingests,
                   compVars>>

\* a client of the store flushes the first n events of file f as one batch
InsertBatch(f, n) ==
    /\ dbOpen
    /\ tbl' = insert_events_batch(tbl, SubSeq(StoreEvents[f], 1, n), f)
    /\ ingests' = IF n = Len(StoreEvents[f])
                  THEN [ingests EXCEPT ![f].batches = Min(@ + 1, MaxIngests)]
                  ELSE ingests
    /\ UNCHANGED <<status, now, mgrVars, pipeVars, sample, ledger, onDisk,
                   compVars>>

\* ArchiveScraper::process_file (one file of a scraping cycle) as the store
\* sees it: the parsed events are counted and dropped, nothing is written
ScrapeFile(f) ==
    /\ ingests' = [ingests EXCEPT ![f].cycles = Min(@ + 1, MaxIngests)]
    /\ UNCHANGED <<status, now, mgrVars, pipeVars, sample, tbl, ledger, onDisk,
                   compVars>>

StoreNext ==
    \/ \E f \in Files : DownloadFile(f)
    \/ \E f \in Files : ScrapeFile(f)
    \/ \E f \in Files : ProcessSingleFile(f)
    \/ \E f \in Files : \E n \in 1..Len(StoreEvents[f]) : InsertBatch(f, n)

StoreSpec == Init /\ [][StoreNext]_vars

----------------------------------------------------------------------------
(* ParseSpec: FileProcessor::parse_events on arbitrary data *)

\* process_archive_file: let (events, errors) = self.parse_events(&data)?
ParseFile(segs) ==
    /\ parseIn' = segs
    /\ parsed' = parse_events(segs)
    /\ UNCHANGED <<coreVars, dlVars, rlVars, rtVars>>

ParseNext == \E segs \in ParseInputs : ParseFile(segs)

ParseSpec == Init /\ [][ParseNext]_vars

----------------------------------------------------------------------------
(* DlSpec: calls of Downloader::download_file for one local_path *)

\* the call, up to the retry loop: an existing file of the expected size
\* is Skipped
DL_Call(expected) ==
    /\ dlPc \in {"idle", "done"}
    /\ dlAttempt' = 0
    /\ dlWaits' = <<>>
    /\ dlLog' = <<>>
    /\ dlLast' = NoResponse
    /\ IF dlFile # NoSize /\ expected # NoSize /\ dlFile = expected
       THEN /\ dlResult' = [status |-> "Skipped", size_bytes |-> dlFile,
                            retries_used |-> 0]
            /\ dlPc' = "done"
       ELSE /\ dlResult' = NoResult
            /\ dlPc' = "attempt"
    /\ UNCHANGED <<coreVars, parseVars, rlVars, rtVars, dlFile>>

\* one turn of the retry loop: the sleep before a retry, download_attempt,
\* and the return of Success
DL_Attempt(resp) ==
    /\ dlPc = "attempt"
    /\ LET r == download_attempt(resp, dlFile)
       IN  /\ dlWaits' = IF dlAttempt > 0
                         THEN Append(dlWaits, retry_delay(dlAttempt))
                         ELSE dlWaits
           /\ dlLast' = resp
           /\ dlLog' = Append(dlLog, r.why)
           /\ dlFile' = r.file
           /\ IF r.ok
              THEN /\ dlResult' = [status |-> "Success", size_bytes |-> r.size,
                                   retries_used |-> dlAttempt]
                   /\ dlPc' = "done"
              ELSE /\ dlResult' = dlResult
                   /\ dlPc' = "cleanup"
    /\ UNCHANGED <<coreVars, parseVars, rlVars, rtVars, dlAttempt>>

\* Err(e): the partial file is removed; after the last attempt Failed
DL_Cleanup ==
    /\ dlPc = "cleanup"
    /\ dlFile' = NoSize
    /\ IF dlAttempt = MaxRetries
       THEN /\ dlResult' = [status |-> "Failed", size_bytes |-> 0,
                            retries_used |-> dlAttempt]
            /\ dlPc' = "done"
            /\ dlAttempt' = dlAttempt
       ELSE /\ dlResult' = dlResult
            /\ dlPc' = "attempt"
            /\ dlAttempt' = dlAttempt + 1
    /\ UNCHANGED <<coreVars, parseVars, rlVars, rtVars, dlWaits, dlLog, dlLast>>

DlNext ==
    \/ \E expected \in {NoSize, 1, 2} : DL_Call(expected)
    \/ \E resp \in Responses : DL_Attempt(resp)
    \/ DL_Cleanup

DlSpec == Init /\ [][DlNext]_vars

----------------------------------------------------------------------------
(* RlSpec: one DanglingCommitFetcher and its RateLimiter *)

\* a call whose outcome on the limiter is r
RlCall(op, arg, r) ==
    /\ limiter' = r.limiter
    /\ rlRet' = [op |-> op, arg |-> arg, result |-> r.result,
                 before |-> [requests_remaining |-> limiter.requests_remaining,
                             delay_factor |-> limiter.delay_factor]]

RL_Update(remaining, reset_in) ==
    /\ RlCall("update_from_response", remaining,
              update_from_response(limiter, remaining, reset_in))
    /\ UNCHANGED <<coreVars, parseVars, dlVars, rtVars, rlCalls>>

\* a request may be answered with a commit while the bound allows, and
\* with 403 while the doubled delay_factor stays within the bound
CanAnswer(answer) ==
    /\ answer = "commit" => rlCalls < MaxCalls
    /\ answer = "403" => limiter.delay_factor * 2 <= MaxFactor * 10

RL_FetchCommit(answer) ==
    /\ CanAnswer(answer)
    /\ RlCall("fetch_commit", answer, fetch_commit(limiter, answer))
    /\ rlCalls' = IF answer = "commit" THEN rlCalls + 1 ELSE rlCalls
    /\ UNCHANGED <<coreVars, parseVars, dlVars, rtVars>>

RL_CommitExists(answer) ==
    /\ answer = "commit" => rlCalls < MaxCalls
    /\ RlCall("commit_exists", answer, commit_exists(limiter, answer))
    /\ rlCalls' = IF answer = "commit" THEN rlCalls + 1 ELSE rlCalls
    /\ UNCHANGED <<coreVars, parseVars, dlVars, rtVars>>

\* the reset time passes
RL_Elapse ==
    /\ limiter.wait > 0
    /\ limiter' = [limiter EXCEPT !.wait = 0]
    /\ UNCHANGED <<coreVars, parseVars, dlVars, rtVars, rlRet, rlCalls>>

RlNext ==
    \/ \E r \in Remainings \cup {NoRemaining}, t \in ResetsIn : RL_Update(r, t)
    \/ \E a \in Answers \cup {"cached", "badrepo"} : RL_FetchCommit(a)
    \/ \E a \in Answers \cup {"badrepo"} : RL_CommitExists(a)
    \/ RL_Elapse

RlSpec == Init /\ [][RlNext]_vars

----------------------------------------------------------------------------
(* RtSpec: GitHubEventMonitor::start_monitoring *)

\* GitHub publishes one more event
RT_Publish ==
    /\ rtLog < MaxEvents
    /\ rtLog' = rtLog + 1
    /\ UNCHANGED <<coreVars, parseVars, dlVars, rlVars, rtLast, rtQueue,
                   rtSeen, rtPolled, rtPush, rtLoop, rtOutcome, rtErrs,
                   rtSleep>>

\* poll_events answered with the k newest events, and process_events
\* putting the new ones on the queue (the queue of the poll before has
\* been processed)
RT_Poll(k) ==
    /\ AtPoll
    /\ k <= rtLog
    /\ LET r == poll_result("Ok", rtErrs)
       IN  rtLoop' = r.loop /\ rtSleep' = r.sleep
    /\ rtOutcome' = "poll_ok"
    /\ rtErrs' = 0
    /\ LET events == Feed(rtLog, k)
           new    == new_events(events, rtLast)
       IN  /\ rtPolled' = events
           /\ rtLast' = IF new # <<>> THEN Head(new) ELSE rtLast
           /\ rtQueue' = new
           /\ rtSeen' = [id \in 1..MaxEvents |->
                            IF \E i \in 1..Len(new) : new[i] = id
                            THEN Min(rtSeen[id] + 1, 2)
                            ELSE rtSeen[id]]
    /\ UNCHANGED <<coreVars, parseVars, dlVars, rlVars, rtLog, rtPush>>

\* poll_events returning Err, and the Err arm of start_monitoring
RT_PollError(e) ==
    /\ AtPoll
    /\ LET r == poll_result(e, rtErrs)
       IN  rtLoop' = r.loop /\ rtSleep' = r.sleep
    /\ rtOutcome' = "poll_err"
    /\ rtErrs' = Min(rtErrs + 1, MaxPollErrors)
    /\ UNCHANGED <<coreVars, parseVars, dlVars, rlVars, rtLog, rtLast,
                   rtQueue, rtSeen, rtPolled, rtPush>>

\* process_queue: process_single_event on the next event returning Err
\* (the payload does not deserialize, the scan or the alert fails)
RT_ProcessFail(kind) ==
    /\ rtLoop = "running"
    /\ rtQueue # <<>>
    /\ LET r == event_result("Err", rtQueue)
       IN  rtQueue' = r.events /\ rtLoop' = r.loop
    /\ rtOutcome' = "event_err"
    /\ rtPush' = [NoPush EXCEPT !.kind = kind]
    /\ UNCHANGED <<coreVars, parseVars, dlVars, rlVars, rtLog, rtLast,
                   rtSeen, rtPolled, rtErrs, rtSleep>>

\* process_queue: process_single_event on the next event, which is not
\* one of the four types handled or is handled without a fetch
RT_ProcessOther(kind) ==
    /\ rtLoop = "running"
    /\ rtQueue # <<>>
    /\ LET r == event_result("Ok", rtQueue)
       IN  rtQueue' = r.events /\ rtLoop' = r.loop
    /\ rtOutcome' = "event_ok"
    /\ rtPush' = [NoPush EXCEPT !.kind = kind]
    /\ UNCHANGED <<coreVars, parseVars, dlVars, rlVars, rtLog, rtLast,
                   rtSeen, rtPolled, rtErrs, rtSleep>>

\* process_single_event on a PushEvent: process_push_event, with the
\* fetch of the before commit by the fetcher of the monitor
RT_ProcessPush(before, answer, secrets) ==
    /\ rtLoop = "running"
    /\ rtQueue # <<>>
    /\ LET r == event_result("Ok", rtQueue)
       IN  rtQueue' = r.events /\ rtLoop' = r.loop
    /\ rtOutcome' = "event_ok"
    /\ IF before = "zero"
       THEN /\ rtPush' = process_push_event(before, "none", secrets)
            /\ UNCHANGED rlVars
       ELSE /\ CanAnswer(answer)
            /\ LET r == fetch_commit(limiter, answer)
               IN  /\ RlCall("fetch_commit", answer, r)
                   /\ rtPush' = process_push_event(before, r.result, secrets)
            /\ rlCalls' = IF answer = "commit" THEN rlCalls + 1 ELSE rlCalls
    /\ UNCHANGED <<coreVars, parseVars, dlVars, rtLog, rtLast, rtSeen,
                   rtPolled, rtErrs, rtSleep>>

RtNext ==
    \/ RT_Publish
    \/ \E k \in 0..PageSize : RT_Poll(k)
    \/ \E e \in PollErrors : RT_PollError(e)
    \/ \E kind \in {"PushEvent", "ReleaseEvent"} : RT_ProcessFail(kind)
    \/ \E kind \in {"PullRequestEvent", "WatchEvent"} : RT_ProcessOther(kind)
    \/ \E before \in {"zero", "sha"},
          answer \in Answers \cup {"cached", "badrepo", "transport404"},
          secrets \in BOOLEAN : RT_ProcessPush(before, answer, secrets)

RtSpec == Init /\ [][RtNext]_vars

----------------------------------------------------------------------------
(* ScanSpec: a SecretScanner with its built-in detectors, detectors added *)
(* by the caller, and scans of texts and patches.                          *)

\* add_detector: the pattern goes into the map under the name, the detector
\* to the end of the list
SC_AddDetector(detector) ==
    /\ Len(scDetectors) < Len(BuiltIn) + MaxCustom
    /\ scPatterns' = compile_patterns(<<detector>>, scPatterns)
    /\ scDetectors' = Append(scDetectors, detector)
    /\ UNCHANGED <<sysVars, svcVars, vlVars, trVars, sgVars, scIn, scOut>>

SC_ScanText(text) ==
    /\ scIn' = [mode |-> "text", text |-> text]
    /\ scOut' = scan_text(scDetectors, scPatterns, text)
    /\ UNCHANGED <<sysVars, svcVars, vlVars, trVars, sgVars, scDetectors, scPatterns>>

SC_ScanPatch(patch) ==
    /\ scIn' = [mode |-> "patch", text |-> patch]
    /\ scOut' = scan_patch(scDetectors, scPatterns, patch)
    /\ UNCHANGED <<sysVars, svcVars, vlVars, trVars, sgVars, scDetectors, scPatterns>>

ScanNext ==
    \/ \E detector \in Custom : SC_AddDetector(detector)
    \/ \E text \in Texts : SC_ScanText(text)
    \/ \E patch \in Patches : SC_ScanPatch(patch)

ScanSpec == Init /\ [][ScanNext]_vars

----------------------------------------------------------------------------
(* ValSpec: SecretValidator::validate_secret on a match of the detector    *)
(* name, with the answer the probed service gives if it is asked.          *)

VL_Validate(name, shape, answer) ==
    /\ vlIn' = [name |-> name, shape |-> shape, answer |-> answer]
    /\ LET result == validate_secret(name, shape, TRUE, answer)
       IN  /\ vlOut' = result
           /\ vlSent' = result.sent
    /\ UNCHANGED <<sysVars, svcVars, scVars, trVars, sgVars>>

ValNext ==
    \E name \in DetectorNames, shape \in TokenShapes, answer \in ProbeAnswers :
        VL_Validate(name, shape, answer)

ValSpec == Init /\ [][ValNext]_vars

----------------------------------------------------------------------------
(* TriSpec: determine_revocation_priority called on one input after        *)
(* another, the call before kept for comparison.                           *)

TR_Priority(impact_score, bounty_potential, risk_factors) ==
    /\ trPrevIn' = trIn
    /\ trPrevOut' = trOut
    /\ trIn' = [impact_score |-> impact_score,
                bounty_potential |-> bounty_potential,
                risk_factors |-> risk_factors]
    /\ trOut' = determine_revocation_priority(impact_score, bounty_potential,
                                              risk_factors)
    /\ UNCHANGED <<sysVars, svcVars, scVars, vlVars, sgVars>>

TriNext ==
    \E impact_score \in ImpactScores, bounty_potential \in BountyPotentials,
       risk_factors \in SUBSET RiskFactorTypes :
        TR_Priority(impact_score, bounty_potential, risk_factors)

TriSpec == Init /\ [][TriNext]_vars

----------------------------------------------------------------------------
(* SigSpec: send_webhook building the request for an alert body and an     *)
(* endpoint with or without a secret.                                      *)

SG_SendWebhook(body, secret) ==
    /\ sgIn' = [body |-> body, secret |-> secret]
    /\ sgOut' = webhook_header(body, secret)
    /\ UNCHANGED <<sysVars, svcVars, scVars, vlVars, trVars>>

SigNext ==
    \E body \in Bodies, secret \in Secrets \cup {NoSecret} :
        SG_SendWebhook(body, secret)

SigSpec == Init /\ [][SigNext]_vars

----------------------------------------------------------------------------
(* ApiSpec: the handlers of the control surface (api/handlers.rs) on one   *)
(* AppState.  A handler is split where it can be suspended: at the lock    *)
(* of main_scraper and inside MainScraper::start, which runs the main loop *)
(* with the lock held.                                                     *)

Done(r, c) == [apiReq EXCEPT ![r].pc = "done", ![r].code = c]

\* a request arrives at its handler
API_Request(r, kind) ==
    /\ apiReq[r].pc = "idle"
    /\ apiReq' = [apiReq EXCEPT ![r].kind = kind,
                     ![r].pc = IF kind = "start" THEN "init" ELSE "mgr"]
    /\ UNCHANGED <<sysVars, scVars, vlVars, trVars, sgVars, ddVars,
                   apiMgr, msMgr, msInst, msLock, msShutdown>>

\* initialize_main_scraper: MainScraper::new and initialize() succeed, or
\* fail and start_scraper answers 500
API_Initialize(r) ==
    /\ apiReq[r].pc = "init"
    /\ \E ok \in BOOLEAN :
        apiReq' = IF ok THEN [apiReq EXCEPT ![r].pc = "install"]
                        ELSE Done(r, 500)
    /\ UNCHANGED <<sysVars, scVars, vlVars, trVars, sgVars, ddVars,
                   apiMgr, msMgr, msInst, msLock, msShutdown>>

\* initialize_main_scraper: *scraper_opt = Some(main_scraper) under the lock
API_Install(r) ==
    /\ apiReq[r].pc = "install"
    /\ msLock = NoHolder
    /\ msInst' = msInst + 1
    /\ msMgr' = DefaultStatus(now)
    /\ msShutdown' = FALSE
    /\ apiReq' = [apiReq EXCEPT ![r].pc = "mgr"]
    /\ UNCHANGED <<sysVars, scVars, vlVars, trVars, sgVars, ddVars,
                   apiMgr, msLock>>

\* match app_state.scraper_manager.<kind>()
API_Manager(r) ==
    /\ apiReq[r].pc = "mgr"
    /\ LET res == manager_call(apiReq[r].kind, apiMgr, now)
       IN  /\ apiMgr' = res.status
           /\ apiReq' = IF res.ok
                         THEN [apiReq EXCEPT ![r].pc = "lock"]
                         ELSE Done(r, rejected_code(apiReq[r].kind))
    /\ UNCHANGED <<sysVars, scVars, vlVars, trVars, sgVars, ddVars,
                   msMgr, msInst, msLock, msShutdown>>

\* app_state.main_scraper.lock() and the call on the MainScraper, if there
\* is one: stop sets shutdown_requested and stops its manager, start
\* starts its manager and enters run_main_loop with the lock held
API_Lock(r) ==
    LET kind == apiReq[r].kind
        res  == manager_call(kind, msMgr, now)
    IN
    /\ apiReq[r].pc = "lock"
    /\ msLock = NoHolder
    /\ IF msInst = 0
       THEN /\ apiReq' = Done(r, 200)
            /\ UNCHANGED <<msMgr, msLock, msShutdown>>
       ELSE /\ msMgr' = res.status
            /\ msShutdown' = IF kind = "stop" THEN TRUE ELSE msShutdown
            /\ IF kind = "start" /\ res.ok
               THEN /\ msLock' = r
                    /\ apiReq' = [apiReq EXCEPT ![r].pc = "loop"]
               ELSE /\ msLock' = msLock
                    /\ apiReq' = Done(r, IF res.ok THEN 200 ELSE 500)
    /\ UNCHANGED <<sysVars, scVars, vlVars, trVars, sgVars, ddVars,
                   apiMgr, msInst>>

\* one turn of run_main_loop inside start_scraper: the loop ends when
\* shutdown_requested is set; it sleeps while its manager is not Running;
\* on emergency it pauses its manager for the wait of 60 seconds
API_Loop(r) ==
    /\ apiReq[r].pc = "loop"
    /\ IF msShutdown
       THEN /\ msLock' = NoHolder
            /\ apiReq' = Done(r, 200)
            /\ msMgr' = msMgr
       ELSE /\ msLock' = msLock
            /\ \E emergency_mode \in BOOLEAN :
                IF is_running(msMgr) /\ emergency_mode
                THEN /\ msMgr' = pause(msMgr, now).status
                     /\ apiReq' = [apiReq EXCEPT ![r].pc = "loop_wait"]
                ELSE UNCHANGED <<msMgr, apiReq>>
    /\ UNCHANGED <<sysVars, scVars, vlVars, trVars, sgVars, ddVars,
                   apiMgr, msInst, msShutdown>>

\* the wait is over: let _ = self.scraper_manager.resume(); continue
API_LoopResume(r) ==
    /\ apiReq[r].pc = "loop_wait"
    /\ msMgr' = resume(msMgr, now).status
    /\ apiReq' = [apiReq EXCEPT ![r].pc = "loop"]
    /\ UNCHANGED <<sysVars, scVars, vlVars, trVars, sgVars, ddVars,
                   apiMgr, msInst, msLock, msShutdown>>

\* the steps of the handler of request r
Handler(r) ==
    \/ API_Initialize(r)
    \/ API_Install(r)
    \/ API_Manager(r)
    \/ API_Lock(r)
    \/ API_Loop(r)
    \/ API_LoopResume(r)

ApiNext ==
    \/ \E r \in Requests, kind \in RequestKinds : API_Request(r, kind)
    \/ \E r \in Requests : Handler(r)

ApiSpec == Init /\ [][ApiNext]_vars

\* the runtime schedules every handler that can take a step
FairApiSpec ==
    /\ ApiSpec
    /\ \A r \in Requests : WF_vars(Handler(r))

----------------------------------------------------------------------------
(* DdSpec: concurrent calls of PerformanceEngine::deduplicate_secrets.     *)
(* The read lock is held for the loop and dropped before the write lock is *)
(* taken; several readers hold the read lock together.                     *)

\* deduplication_store.read(), the loop over the secrets, drop(dedup_store)
DD_Read(c, secrets) ==
    /\ ddReq[c].pc = "idle"
    /\ LET r == dedup_from(secrets, 1, ddStore, <<>>, {})
       IN  ddReq' = [ddReq EXCEPT ![c] =
                        [pc |-> "write", secrets |-> secrets,
                         unique_secrets |-> r.unique_secrets,
                         new_hashes |-> r.new_hashes]]
    /\ UNCHANGED <<sysVars, scVars, vlVars, trVars, sgVars, apiVars, ddStore>>

\* deduplication_store.write(), extend(new_hashes), Ok(unique_secrets)
DD_Write(c) ==
    /\ ddReq[c].pc = "write"
    /\ ddStore' = ddStore \cup ddReq[c].new_hashes
    /\ ddReq' = [ddReq EXCEPT ![c].pc = "done"]
    /\ UNCHANGED <<sysVars, scVars, vlVars, trVars, sgVars, apiVars>>

DdNext ==
    \/ \E c \in DedupCalls, secrets \in Batches : DD_Read(c, secrets)
    \/ \E c \in DedupCalls : DD_Write(c)

DdSpec == Init /\ [][DdNext]_vars

----------------------------------------------------------------------------
(* Properties of the coordinator (Spec) *)

CountersZero(s) ==
    /\ s.files_processed = 0
    /\ s.events_processed = 0
    /\ s.error_count = 0

\* C1: an illegal transition (Pause when not Running, Resume when not
\* Paused, Start when neither Stopped nor Paused) returns an error and
\* leaves the whole status, state and counters, as it was.
IllegalTransitionRejected ==
    [][\A th \in Threads :
        /\ (Pause(th) /\ status.state # "Running")
              => (ret' = [op |-> "pause", ok |-> FALSE] /\ status' = status)
        /\ (Resume(th) /\ status.state # "Paused")
              => (ret' = [op |-> "resume", ok |-> FALSE] /\ status' = status)
        /\ (Start(th) /\ status.state \notin {"Stopped", "Paused"})
              => (ret' = [op |-> "start", ok |-> FALSE] /\ status' = status)
      ]_vars

\* a Pause was refused in Stopped while the counters were not all zero
PauseRefusedWhenStopped ==
    /\ ret = [op |-> "pause", ok |-> FALSE]
    /\ status.state = "Stopped"
    /\ status.events_processed > 0
    /\ status.error_count > 0

\* C7: a Start that succeeds leaves the coordinator Running with
\* files_processed, events_processed and error_count all 0 and start_time
\* equal to the time of the call.
StartInitialisesCounters ==
    [][\A th \in Threads :
        (Finish(th) /\ pend.op = "start")
            => /\ status'.state = "Running"
               /\ CountersZero(status')
               /\ status'.start_time = pend.at
      ]_vars

\* C8: Restart, from any state, resets the counters to 0 and takes the
\* coordinator through Stopped before it becomes Running.
RestartPassesThroughStopped ==
    [][\A th \in Threads :
        (Finish(th) /\ pend.op = "restart")
            => /\ status'.state = "Running"
               /\ CountersZero(status')
               /\ (pend.from = "Stopped" \/ status.state = "Stopped")
      ]_vars

\* C9: every snapshot handed out by get_status is the complete status left
\* by a finished operation, never the half-written status of an operation
\* that is still inside its critical section.
SnapshotIsCommitted ==
    snap # NoSnap => snap = committed

\* an observer holds a snapshot taken after a progress update and a pause
SnapshotOfPausedProgress ==
    /\ snap # NoSnap
    /\ snap.state = "Paused"
    /\ snap.events_processed = 2000
    /\ snap.current_file = "f1"

----------------------------------------------------------------------------
(* Properties of the pipeline (PipeSpec, FairPipeSpec) *)

ShutdownRaised == mainFlag /\ archFlag

LoopRunning == pc \notin {"new", "exited", "failed"}

\* C4: once the shutdown signal is raised (MainScraper::stop has set both
\* flags), the main loop and the continuous scraping loop eventually exit.
ShutdownEventuallyExits == ShutdownRaised ~> ~LoopRunning

\* C5: when a monitor reports emergency the main loop pauses a Running
\* coordinator, no process_file task exists or is started until 60 seconds
\* have passed since the report, and after its wait the main loop resumes
\* the coordinator it paused.
EmergencyPausesProducers ==
    [][/\ (ML_Pause /\ status.state = "Running") => status'.state = "Paused"
       /\ sinceEm' < 60 => \A f \in Files : workers'[f].pc = "idle"
       /\ (ML_Resume /\ status.state = "Paused") => status'.state = "Running"
      ]_vars

\* the main monitor reported emergency, 60 seconds passed and the main loop
\* has resumed the coordinator
ResumedAfterEmergency ==
    /\ pc = "ml_top"
    /\ timer = 0
    /\ emergency["main"]
    /\ sinceEm >= 60
    /\ status.state = "Running"
    /\ opsLeft = MaxOps

\* the lines of file f that parse as JSON
RECURSIVE JsonLines(_)
JsonLines(segs) ==
    IF segs = <<>>
    THEN 0
    ELSE (IF Head(segs) > 0 THEN Head(segs) ELSE 0) + JsonLines(Tail(segs))

\* the task w of file f left the loop over the lines before the last line
CutShort(w, f) ==
    \/ w.idx < Len(FileLines[f])
    \/ w.ev < JsonLines(FileLines[f])

\* C12: a file whose processing the shutdown signal cut short, before all
\* of its lines were handled, is not reported as successfully processed.
PartialFileNotSuccess ==
    [][\A f \in Files :
        (W_Final(f) /\ CutShort(workers[f], f))
            => workers'[f].res # "success"
      ]_vars

\* C13: on shutdown the store is closed only after in-flight work has
\* drained: no process_file task is processing a file at the moment
\* MainScraper::stop disconnects the database.
StoreClosedAfterDrain ==
    [][Op_Stop4 => \A f \in Files : ~Running(workers[f])]_vars

\* C6: a component that posts an error (process_file on a line that is not
\* JSON) puts the coordinator in the Error state, from which it reaches
\* Stopped.
PostedErrorEntersErrorState ==
    [][\A f \in Files :
        (W_Line(f) /\ FileLines[f][workers[f].idx] = BadLine)
            => status'.state = "Error"
      ]_vars

----------------------------------------------------------------------------
(* Properties of the governor (GovSpec) *)

\* e.L and w.L of each axis against the percent the status reports (tenths
\* of a percent; for the CPU the limit is cpu_limit_percent)
AnyAboveEmergency(s) ==
    \/ RoundTenths(s.mem) > EmergencyPercent * 10
    \/ RoundTenths(s.disk) > EmergencyPercent * 10
    \/ RoundTenths(s.cpu) * 100 > CpuLimit * EmergencyPercent * 10

AllInBand(s) ==
    /\ RoundTenths(s.mem) >= MemoryWarning * 10
    /\ RoundTenths(s.mem) <= EmergencyPercent * 10
    /\ RoundTenths(s.disk) >= DiskWarning * 10
    /\ RoundTenths(s.disk) <= EmergencyPercent * 10
    /\ RoundTenths(s.cpu) * 100 >= CpuLimit * CpuWarning * 10
    /\ RoundTenths(s.cpu) * 100 <= CpuLimit * EmergencyPercent * 10

\* C10: a sample with an axis above e.L raises the emergency flag, and a
\* sample with every axis between w.L and e.L leaves the flag as it was.
EmergencyHysteresis ==
    [][\A m \in Monitors :
        (Sample(m) /\ sample'.monitor = m)
            => /\ AnyAboveEmergency(sample') => emergency'[m]
               /\ AllInBand(sample') => emergency'[m] = emergency[m]
      ]_vars

----------------------------------------------------------------------------
(* Properties of the store (StoreSpec) *)

\* C2: the ledger holds a record for a file only when every event of that
\* file that the record counts is a row of the events table.
LedgerOnlyAfterEvents ==
    \A f \in Files :
        ledger[f] # NoRecord
            => \A i \in 1..Len(StoreEvents[f]) :
                   validate_event(StoreEvents[f][i])
                       => HasRow(tbl, StoreEvents[f][i].id)

\* C3: ingesting a file again (its etag and size as before) adds no row to
\* the events table: not a second scraping cycle over the file, not
\* process_single_file on a file the ledger already holds, and not a batch
\* of events of a file whose events were inserted before.
ReingestionAddsNoRows ==
    [][\A f \in Files :
        /\ (ScrapeFile(f) /\ ingests[f].cycles > 0)
              => Len(tbl') = Len(tbl)
        /\ (ProcessSingleFile(f) /\ ledger[f] # NoRecord)
              => Len(tbl') = Len(tbl)
        /\ (ingests[f].batches > 0
                /\ \E n \in 1..Len(StoreEvents[f]) : InsertBatch(f, n))
              => Len(tbl') = Len(tbl)
      ]_vars

\* f1 went through two scraping cycles, its events were inserted twice and
\* the ledger holds it
IngestedTwice ==
    /\ ingests["f1"].batches >= 2
    /\ ingests["f1"].cycles >= 2
    /\ ledger["f1"] # NoRecord
    /\ Len(tbl) = 2

\* C11: a listed file that the ledger records with the etag and size it
\* has now (the listing carries etag None and the size on disk) is not
\* processed by a later scraping cycle.
LedgerFileNotScrapedAgain ==
    [][\A f \in Files :
        (is_file_processed(ledger, f, NoEtag)
            /\ ledger[f].size_bytes = FileSize[f])
            => ~ScrapeFile(f)
      ]_vars

----------------------------------------------------------------------------
(* Properties of the parser (ParseSpec) *)

\* the lines of the data whose kind is in kinds
RECURSIVE CountLines(_, _)
CountLines(data, kinds) ==
    IF data = <<>>
    THEN 0
    ELSE (IF Head(data).kind \in kinds THEN Head(data).n ELSE 0)
         + CountLines(Tail(data), kinds)

\* C14: lines that are not JSON are skipped and never abort the file:
\* every other non-blank line of the data becomes an event of the result,
\* however many lines are not JSON.
BadLinesNeverAbort ==
    Len(parsed.events) = CountLines(parseIn, {"ok", "inv"})

----------------------------------------------------------------------------
(* Properties of the downloader (DlSpec) *)

BackoffIsExponential ==
    \A i \in 1..Len(dlWaits) :
        /\ i >= 2 => dlWaits[i] > dlWaits[i - 1]
        /\ i >= 3 => dlWaits[i] * dlWaits[i - 2] = dlWaits[i - 1] * dlWaits[i - 1]

----------------------------------------------------------------------------
(* Properties of the rate limiter and the fetcher (RlSpec) *)

\* the stepped function of remaining, in tenths
SteppedMultiplier(r) ==
    CASE r > 1000 -> 10
      [] r > 500 /\ r <= 1000 -> 15
      [] r > 100 /\ r <= 500 -> 20
      [] r <= 100 -> 30

RateLimitAnswerDoublesDelay ==
    [][\A a \in {"403", "429"} :
        (RL_FetchCommit(a) \/ RL_CommitExists(a))
            => /\ limiter'.requests_remaining = 0
               /\ limiter'.delay_factor = 2 * limiter.delay_factor
               /\ rlRet'.result \in {"Err: rate limited",
                                      "Err: rate limited or forbidden"}
      ]_vars

----------------------------------------------------------------------------
(* Properties of the live monitor (RtSpec) *)

\* C19: every poll keeps only the entries newer than last_event_id, so no
\* event id is returned as new, and dispatched, more than once.
NoEventDispatchedTwice ==
    /\ \A id \in 1..MaxEvents : rtSeen[id] <= 1
    /\ \A i \in 1..Len(rtQueue) : \A j \in 1..Len(rtQueue) :
          rtQueue[i] = rtQueue[j] => i = j

\* the response held the event that was last_event_id (2) behind a newer
\* one (3), and only the newer one was dispatched
OverlappingPollFiltered ==
    /\ rtPolled = <<3, 2>>
    /\ rtQueue = <<3>>
    /\ rtLast = 3
    /\ rtSeen[2] = 1
    /\ rtSeen[3] = 1

\* C20: for a PushEvent whose before is not the zero sha, a fetch that
\* reports Absent marks the sha as dangling and hands it to the scanner,
\* and a fetch that reports Present has the commit body scanned and is
\* not counted as dangling.
AbsentMarkedPresentScanned ==
    (rtPush.kind = "PushEvent" /\ rtPush.before = "sha")
        => /\ rtPush.fetch = "None"
                => (rtPush.marked /\ rtPush.scanned # "none")
           /\ rtPush.fetch = "Some"
                => (rtPush.scanned = "body" /\ ~rtPush.marked)

\* C21: neither an error of poll_events nor an error while handling one
\* event ends the loop of the monitor: after a polling error the monitor
\* is at its next poll, and after an event error the events that followed
\* it in the same poll are still to be handled.
MonitorSurvivesErrors ==
    [][/\ rtLoop' = "running"
       /\ (\E e \in PollErrors : RT_PollError(e)) => AtPoll'
       /\ (\E kind \in {"PushEvent", "ReleaseEvent"} : RT_ProcessFail(kind))
             => rtQueue' = Tail(rtQueue)
      ]_vars

\* an event failed while another event of the same poll waits behind it
EventErrorWithEventsLeft ==
    /\ rtOutcome = "event_err"
    /\ rtQueue # <<>>
    /\ rtLoop = "running"

\* C22: the wait after a polling error grows with the number of polling
\* errors in a row: the wait after the second error in a row is longer
\* than the wait after the first (a doubling below a cap).
PollBackoffGrows ==
    [][(\E e \in PollErrors : RT_PollError(e)) /\ rtErrs = 1
          => rtSleep' > rtSleep]_vars

----------------------------------------------------------------------------
(* Properties of the scanner (ScanSpec) *)

\* C23: a scan returns one match per distinct hash, the first in the
\* order of the scanner's passes: the matches returned are what
\* deduplicate_matches keeps of them, so their number is the number of
\* distinct hashes.
ScanReturnsOnePerHash ==
    /\ scOut = deduplicate_matches(scOut)
    /\ Len(scOut) = Cardinality({scOut[i].hash : i \in 1..Len(scOut)})

\* C24: no match returned by a scan of a text or of a patch, by a built-in
\* or an added detector, has an entropy below the entropy_threshold of the
\* detector that produced it, when that detector declares one.
NoMatchBelowThreshold ==
    \A i \in 1..Len(scOut) :
        LET t == scDetectors[scOut[i].detector].entropy_threshold
        IN  t # NoThreshold => scOut[i].entropy >= t

\* a patch scan where one detector with a threshold dropped a string that
\* another kept, after a detector was added
ThresholdDroppedInPatch ==
    /\ scIn.mode = "patch"
    /\ Len(scDetectors) > Len(BuiltIn)
    /\ \E i \in 1..Len(scOut) :
          /\ scOut[i].matched_text = "mid"
          /\ scDetectors[scOut[i].detector].entropy_threshold = 40
    /\ ~\E i \in 1..Len(scOut) :
          /\ scOut[i].matched_text = "mid"
          /\ scDetectors[scOut[i].detector].entropy_threshold = 45

----------------------------------------------------------------------------
(* Properties of the validator (ValSpec) *)

\* C25: when the request of a probe gets no answer within the timeout, the
\* record returned is neither valid nor invalid: the secret is not marked
\* invalid.
TimeoutIsNotInvalid ==
    (vlIn.answer = "timeout" /\ vlSent # {})
        => (~vlOut.is_valid /\ ~MarkedInvalid(vlOut))

\* C26: validating a match of the AWS access key, the AWS secret key or
\* the Twilio detector sends no request to any service.
StructuralCheckSendsNothing ==
    vlIn.name \in { <<"AWS", "Access", "Key", "ID">>,
                    <<"AWS", "Secret", "Access", "Key">>,
                    <<"Twilio", "API", "Key">> }
        => vlSent = {}

\* an AWS secret key was validated while the service would have answered
AwsSecretCheckedOffline ==
    /\ vlIn.name = <<"AWS", "Secret", "Access", "Key">>
    /\ vlIn.answer = "success"
    /\ vlOut.validation_method = "aws_access_key_check"
    /\ vlOut.secret_hash # ""
    /\ vlSent = {}

----------------------------------------------------------------------------
(* Properties of the triage agent (TriSpec) *)

\* the rows of the decision table, first matching row first
PriorityTable(impact, bounty, production, validated) ==
    CASE validated /\ (impact > 80 \/ production) -> "Immediate"
      [] OTHER -> CASE validated \/ impact > 60 -> "High"
                    [] OTHER -> CASE impact > 40 \/ bounty > 60 -> "Medium"
                                  [] OTHER -> CASE impact > 20 -> "Low"
                                                [] OTHER -> "Monitor"

\* C27: for every impact, bounty, production indicator and active
\* validation the priority is the first matching row of: validated and
\* (impact > 0.8 or production) Immediate; validated or impact > 0.6 High;
\* impact > 0.4 or bounty > 0.6 Medium; impact > 0.2 Low; else Monitor.
PriorityFollowsTable ==
    trOut # "none" =>
        trOut = PriorityTable(trIn.impact_score, trIn.bounty_potential,
                              "ProductionEnvironment" \in trIn.risk_factors,
                              "HighPrivileges" \in trIn.risk_factors)

\* a validated secret of low impact took the first row by its production
\* indicator
ImmediateByProduction ==
    /\ trOut = "Immediate"
    /\ trIn.impact_score = 20
    /\ trIn.risk_factors = {"HighPrivileges", "ProductionEnvironment"}

PriorityRank(priority) ==
    CASE priority = "Monitor"   -> 0
      [] priority = "Low"       -> 1
      [] priority = "Medium"    -> 2
      [] priority = "High"      -> 3
      [] priority = "Immediate" -> 4

\* C28: with the other inputs the same, a larger impact score or an added
\* active-validation risk factor never gives a lower priority in the order
\* Monitor < Low < Medium < High < Immediate.
PriorityIsMonotone ==
    (/\ trPrevOut # "none"
     /\ trIn.bounty_potential = trPrevIn.bounty_potential
     /\ trIn.impact_score >= trPrevIn.impact_score
     /\ \/ trIn.risk_factors = trPrevIn.risk_factors
        \/ trIn.risk_factors = trPrevIn.risk_factors \cup {"HighPrivileges"})
        => PriorityRank(trOut) >= PriorityRank(trPrevOut)

\* the same secret triaged again with a validation added and a larger
\* impact went from Low to Immediate
RaisedByValidationAndImpact ==
    /\ trPrevOut = "Low"
    /\ trOut = "Immediate"
    /\ trPrevIn.risk_factors = {"PublicRepository"}
    /\ trIn.risk_factors = {"PublicRepository", "HighPrivileges"}
    /\ trIn.bounty_potential = trPrevIn.bounty_potential
    /\ trIn.impact_score > trPrevIn.impact_score

----------------------------------------------------------------------------
(* Properties of the webhook sender (SigSpec) *)

RECURSIVE Xor(_, _)
Xor(a, b) ==
    IF a = 0 /\ b = 0
    THEN 0
    ELSE (((a % 2) + (b % 2)) % 2) + 2 * Xor(a \div 2, b \div 2)

\* the key of HMAC-SHA-256 brought to the block size of 64 bytes and
\* xor-ed with the pad byte
PaddedKey(key, pad) ==
    LET k == IF Len(key) > 64 THEN sha256(bytes(key)) ELSE bytes(key)
    IN  [i \in 1..64 |->
            IF i <= Len(k) /\ k[i].kind = "byte"
            THEN Byte(Xor(k[i].value, pad))
            ELSE IF i <= Len(k) THEN k[i] ELSE Byte(pad)]

\* HMAC-SHA-256 (RFC 2104): H((K xor opad) || H((K xor ipad) || message))
HmacSha256(key, message) ==
    sha256(PaddedKey(key, 92) \o sha256(PaddedKey(key, 54) \o bytes(message)))

\* C29: for any body B and configured secret K, the X-Hub-Signature-256
\* header is "sha256=" followed by the hex encoding of HMAC-SHA-256 keyed
\* with K over B.
WebhookSignatureIsHmac ==
    sgIn.secret # NoSecret
        => sgOut = sha256_header(HmacSha256(sgIn.secret, sgIn.body))

----------------------------------------------------------------------------
(* Properties of the store under repeated events (StoreSpec) *)

\* C30: after any batch insert the events table holds at most one row per
\* event id, and an event of the batch whose id was stored before has
\* replaced the stored payload (it is neither a second row nor ignored).
DuplicateEventReplacesPayload ==
    [][\A f \in Files : \A n \in 1..Len(StoreEvents[f]) :
        InsertBatch(f, n) =>
            /\ \A i, j \in 1..Len(tbl') :
                   tbl'[i].github_id = tbl'[j].github_id => i = j
            /\ \A k \in 1..n :
                   HasRow(tbl, StoreEvents[f][k].id) =>
                       \E i \in 1..Len(tbl') :
                           /\ tbl'[i].github_id = StoreEvents[f][k].id
                           /\ tbl'[i].payload = StoreEvents[f][k].payload
      ]_vars

----------------------------------------------------------------------------
(* Properties of patch scanning (ScanSpec) *)

\* the number of the lines of a patch of the given kind that hold str
LinesHolding(patch, kind, str) ==
    Cardinality({i \in 1..Len(patch) : patch[i].kind = kind /\ patch[i].str = str})

\* the number of the matches that the detector at index d made of str
MatchesOf(matches, d, str) ==
    Cardinality({i \in 1..Len(matches) :
                    matches[i].detector = d /\ matches[i].matched_text = str})

\* C32: a patch scan examines exactly the lines that begin with '+' and
\* not with '+++', without the '+': a detector finds a string as often as
\* added lines hold it (when its pattern matches it and its entropy
\* passes), so that no match comes from a removed line, a context line or
\* a file header.  (A step that leaves the detectors alone and ends in a
\* patch scan is a patch scan.)
PatchScanReadsAddedLinesOnly ==
    [][(scIn'.mode = "patch" /\ UNCHANGED <<scDetectors, scPatterns>>) =>
            \A d \in 1..Len(scDetectors) : \A str \in Strings :
                MatchesOf(scOut', d, str) =
                    IF /\ str \in scPatterns[scDetectors[d].name]
                       /\ passes_threshold(shannon_entropy(str),
                                           scDetectors[d].entropy_threshold)
                    THEN LinesHolding(scIn'.text, "+", str)
                    ELSE 0
      ]_vars

\* a patch whose removed line holds a string that would match gave only
\* the matches of its added line
RemovedLineNotScanned ==
    /\ scIn.mode = "patch"
    /\ scIn.text = << [kind |-> "-", str |-> "hi"], [kind |-> "+", str |-> "mid"] >>
    /\ scOut # <<>>
    /\ \A i \in 1..Len(scOut) : scOut[i].matched_text = "mid"

----------------------------------------------------------------------------
(* Properties of the rate limiter over sequences of calls (RlSpec) *)

\* C38: requests_remaining never becomes negative, over any sequence of
\* answered requests, rate-limit answers and waits, also after the reset
\* time has passed.
RemainingNeverNegative ==
    limiter.requests_remaining >= 0

\* C39: once a request succeeds after a rate-limit answer has raised
\* delay_factor, delay_factor is back at the stepped value of
\* requests_remaining (at most 3.0): it does not stay raised.
SuccessRestoresSteppedMultiplier ==
    [][(RL_FetchCommit("commit") \/ RL_CommitExists("commit"))
          => limiter'.delay_factor = SteppedMultiplier(limiter'.requests_remaining)
      ]_vars

\* C40: a file that exists at local_path when download_file is called is
\* not lost through a failed download: the handling of an attempt that
\* failed before anything was written (every attempt so far ended on the
\* HTTP status) leaves the file at local_path as it was.
FailedDownloadKeepsExistingFile ==
    [][(/\ dlPc = "cleanup"
        /\ dlFile # NoSize
        /\ \A i \in 1..Len(dlLog) : dlLog[i] = "http")
          => dlFile' = dlFile
      ]_vars

\* C37: while the pipeline is Running, no step other than an operator's
\* restart lowers files_processed or events_processed of the status, also
\* when the tasks of several files report their progress.
ProgressNeverDecreases ==
    [][(status.state = "Running" /\ ~Op_Restart)
          => /\ status'.events_processed >= status.events_processed
             /\ status'.files_processed >= status.files_processed
      ]_vars

\* the main loop saw the coordinator Running and an emergency, and stands
\* before its own pause(); the coordinator is Paused, which only a pause of
\* the operator can have done since; the operator makes no further call
OperatorPausedBeforeEmergencyPause ==
    /\ pc = "ml_pause"
    /\ status.state = "Paused"
    /\ opsLeft = 0
    /\ opc = "idle"

\* C33: a pause of the operator is not undone by the coordinator: when the
\* operator has paused just before the emergency pause is applied and
\* calls nothing afterwards, the coordinator stays Paused through the
\* emergency handling and after it.
OperatorPauseSurvivesEmergency ==
    [](OperatorPausedBeforeEmergencyPause => [](status.state = "Paused"))

\* C31: the processing queue between the poller and the event handlers is
\* bounded: the number of events waiting in it never exceeds its bound (a
\* producer that finds it full adds nothing until space is free).
QueueWithinBound ==
    Len(rtQueue) <= QueueBound

\* every request has returned or is the start that runs the main loop
Settled ==
    \A r \in Requests : apiReq[r].pc \in {"idle", "done", "loop"}

\* C34: a stop, pause, resume or restart request that was accepted while
\* the main loop runs eventually returns: it is not blocked forever by
\* the start request that runs the loop.
ControlRequestCompletes ==
    \A r \in Requests :
        (/\ apiReq[r].kind \in {"stop", "pause", "resume", "restart"}
         /\ apiReq[r].pc = "lock"
         /\ \E q \in Requests : apiReq[q].pc \in {"loop", "loop_wait"})
            ~> apiReq[r].pc = "done"

\* C35: once the requests have returned, the manager of the control
\* surface and the manager of the MainScraper it holds are in the same
\* state.
ManagersAgree ==
    (Settled /\ msInst # 0) => apiMgr.state = msMgr.state

\* C36: a hash is admitted as unique by at most one of the concurrent
\* calls of deduplicate_secrets.
HashAdmittedOnce ==
    \A h \in Hashes :
        Cardinality({c \in DedupCalls :
                        /\ ddReq[c].pc = "done"
                        /\ \E i \in 1..Len(ddReq[c].unique_secrets) :
                              ddReq[c].unique_secrets[i] = h}) <= 1

====
